---- MODULE Spec2Model ----
(***************************************************************************)
(* A model of y-prosemirror's sync plugin: the binding between a Yjs       *)
(* shared XML fragment (the shared tree) and a ProseMirror document (the   *)
(* editable tree).  Source: src/unnamed/part_000 (plugins/sync-plugin.js). *)
(*                                                                         *)
(* Shared nodes live in a store (a sequence, a node's id is its index);    *)
(* editable nodes are immutable values that carry an object reference      *)
(* `ref`, so that JavaScript's === on nodes is equality of the records.    *)
(***************************************************************************)
EXTENDS Integers, Sequences, FiniteSets, TLC

(***************************************************************************)
(* Bounds of the model.                                                    *)
(***************************************************************************)
\* number of handler invocations explored from the initial state
MaxSteps == 4

\* transactions cleaned up by one outermost doc.transact before the handler
\* is taken to hang
MaxCleanups == 6

\* nested view.dispatch calls before the call stack is exhausted
MaxDepth == 4

(***************************************************************************)
(* Generic helpers.                                                        *)
(***************************************************************************)
Min(a, b) == IF a < b THEN a ELSE b

Max(a, b) == IF a < b THEN b ELSE a

\* a function on 1..n as a sequence
Tuple(f) == f \o <<>>

EmptyFn == [x \in {} |-> 0]

\* a table that takes no entry
FnKept(f, k, v) == f

FnSet(f, k, v) == [x \in (DOMAIN f) \cup {k} |-> IF x = k THEN v ELSE f[x]]

FnDel(f, k) == [x \in (DOMAIN f) \ {k} |-> f[x]]

FnDelAll(f, ks) == [x \in (DOMAIN f) \ ks |-> f[x]]

RECURSIVE SeqFilterIdx(_, _, _)
\* the indices i of s, in order, with keep[i]
SeqFilterIdx(s, keep, i) ==
  IF i > Len(s) THEN <<>>
  ELSE (IF keep[i] THEN <<s[i]>> ELSE <<>>) \o SeqFilterIdx(s, keep, i + 1)

RECURSIVE Concat(_)
Concat(ss) == IF ss = <<>> THEN <<>> ELSE Head(ss) \o Concat(Tail(ss))

(***************************************************************************)
(* Attribute values.  k: "null" | "prim" | "obj" | "mark".                 *)
(* An "obj" is the object {x: v} with object reference r; a "mark" is the  *)
(* object mark.toJSON() = {type, attrs} of the mark of its key, v its      *)
(* attrs.  Reference 0 is an object allocated by the call that compares    *)
(* it: it is === to no object.                                             *)
(***************************************************************************)
Null == [k |-> "null", r |-> 0, v |-> 0]

Prim(v) == [k |-> "prim", r |-> 0, v |-> v]

Obj(r, v) == [k |-> "obj", r |-> r, v |-> v]

MarkJSON(v) == [k |-> "mark", r |-> 0, v |-> v]

isObject(val) == val.k \in {"obj", "mark"}

\* JavaScript's l === r
StrictEq(l, r) ==
  /\ l.k = r.k
  /\ l.v = r.v
  /\ isObject(l) => (l.r = r.r /\ l.r # 0)

\* lib0 f.equalityDeep
equalityDeep(l, r) == l.k = r.k /\ l.v = r.v

(***************************************************************************)
(* Attribute keys of a shared element: `mk` is key.startsWith(MarkPrefix), *)
(* `name` the key without the prefix.                                      *)
(***************************************************************************)
Key(name) == [mk |-> FALSE, name |-> name]

MarkKey(name) == [mk |-> TRUE, name |-> name]

\* the order in which `for (const key in attrs)` meets the keys
KeyOrder == << Key("a"), Key("ychange"), MarkKey("strong"), MarkKey("em"), MarkKey("comment") >>

RECURSIVE KeysInOrder(_, _)
KeysInOrder(ks, i) ==
  IF i > Len(KeyOrder) THEN <<>>
  ELSE (IF KeyOrder[i] \in ks THEN <<KeyOrder[i]>> ELSE <<>>) \o KeysInOrder(ks, i + 1)

(***************************************************************************)
(* Marks of the editable tree: [type, id]; the attrs of a mark are {} when *)
(* id = 0 and {id: id} otherwise.  The schema of the model: "strong" and   *)
(* "em" exclude themselves, "comment" excludes nothing (overlapping).      *)
(***************************************************************************)
Mark(t, id) == [type |-> t, id |-> id]

MarkTypes == {"strong", "em", "comment"}

\* mark.type.excludes(mark.type)
ExcludesItself(t) == t # "comment"

\* utils.hashOfJSON(mark.toJSON()): one hash per (type, attrs)
hashOfJSON(m) == m.id + 1

\* a formatting attribute of a text run: key `name` or `name--hash`, value
\* the mark's attrs
Fmt(name, hash, val) == [name |-> name, hash |-> hash, val |-> val]

yattr2markname(f) == f.name

marksToAttributes(marks) ==
  { Fmt(m.type, IF ExcludesItself(m.type) THEN 0 ELSE hashOfJSON(m), m.id) :
      m \in { x \in marks : x.type # "ychange" } }

\* the keys of nodeMarksToAttributes(marks)
nodeMarkKeys(marks) == { MarkKey(m.type) : m \in { x \in marks : x.type # "ychange" } }

\* pattrs[`_mark_<type>`] = mark.toJSON(): the last mark of the type wins
\* (marks are kept sorted; among marks of one type, by id here)
nodeMarksToAttributes(marks) ==
  [ key \in nodeMarkKeys(marks) |->
      LET ms == { m \in marks : m.type = key.name }
          last == CHOOSE m \in ms : \A o \in ms : o.id <= m.id
      IN MarkJSON(last.id) ]

\* the attrs object of a mark: {} or {id: id}
MarkAttrs(id) == IF id = 0 THEN EmptyFn ELSE [x \in {Key("id")} |-> Prim(id)]

(***************************************************************************)
(* Editable (ProseMirror) nodes.  One record shape for elements and text   *)
(* nodes: a text node has type "text", no content and no attrs.            *)
(***************************************************************************)
PText(ref, text, marks) ==
  [ref |-> ref, type |-> "text", attrs |-> EmptyFn, marks |-> marks, content |-> <<>>, text |-> text]

PElem(ref, type, attrs, marks, content) ==
  [ref |-> ref, type |-> type, attrs |-> attrs, marks |-> marks, content |-> content, text |-> <<>>]

isText(n) == n.type = "text"

\* a slot of normalized content: one element node, or an array of text nodes
ElSlot(n) == [arr |-> FALSE, n |-> <<n>>, a |-> <<>>]

ArrSlot(a) == [arr |-> TRUE, n |-> <<>>, a |-> a]

RECURSIVE normalizeFrom(_, _)
normalizeFrom(c, i) ==
  IF i > Len(c) THEN <<>>
  ELSE IF isText(c[i])
    THEN LET RECURSIVE RunEnd(_)
             RunEnd(j) == IF j < Len(c) /\ isText(c[j + 1]) THEN RunEnd(j + 1) ELSE j
             e == RunEnd(i)
         IN <<ArrSlot(SubSeq(c, i, e))>> \o normalizeFrom(c, e + 1)
    ELSE <<ElSlot(c[i])>> \o normalizeFrom(c, i + 1)

normalizePNodeContent(pnode) == normalizeFrom(pnode.content, 1)

\* the text of an array of text nodes, joined
RECURSIVE JoinText(_)
JoinText(ptexts) == IF ptexts = <<>> THEN <<>> ELSE Head(ptexts).text \o JoinText(Tail(ptexts))

\* a node without its object references: Node.eq of ProseMirror compares these
RECURSIVE Strip(_)
Strip(n) ==
  [n EXCEPT !.ref = 0,
            !.attrs = [key \in DOMAIN n.attrs |-> [n.attrs[key] EXCEPT !.r = 0]],
            !.content = Tuple([i \in 1..Len(n.content) |-> Strip(n.content[i])])]

StripSeq(ns) == Tuple([i \in 1..Len(ns) |-> Strip(ns[i])])

(***************************************************************************)
(* Shared (Yjs) nodes.  kind: "frag" | "el" | "text" | "hook"; `kids` are  *)
(* the ids of the child items in list order, tombstones included; `chars`  *)
(* the live characters of a text run, each with its formatting attributes; *)
(* `client` is TRUE for an item created by this replica; `parent` is the   *)
(* id of the parent type (0: none); `born` the transaction that integrated *)
(* the item (0: not integrated yet).                                       *)
(***************************************************************************)
YNode(kind, name, attrs, kids, chars, client) ==
  [kind |-> kind, name |-> name, attrs |-> attrs, kids |-> kids, del |-> FALSE,
   chars |-> chars, client |-> client, parent |-> 0, born |-> 0]

Char(c, f) == [c |-> c, f |-> f]

\* the id of the bound fragment
Root == 1

\* ytype.toArray(): the live children
toArray(ys, id) ==
  LET ks == ys[id].kids
  IN SeqFilterIdx(ks, [i \in 1..Len(ks) |-> ~ys[ks[i]].del], 1)

\* ytext.toDelta(): runs of characters with the same attributes
RECURSIVE deltaFrom(_, _)
deltaFrom(chars, i) ==
  IF i > Len(chars) THEN <<>>
  ELSE LET RECURSIVE RunEnd(_)
           RunEnd(j) == IF j < Len(chars) /\ chars[j + 1].f = chars[i].f THEN RunEnd(j + 1) ELSE j
           e == RunEnd(i)
       IN <<[insert |-> [j \in 1..(e - i + 1) |-> chars[i + j - 1].c], attributes |-> chars[i].f]>>
            \o deltaFrom(chars, e + 1)

toDelta(ys, id) == deltaFrom(ys[id].chars, 1)

\* every node under id, id included
RECURSIVE Subtree(_, _)
Subtree(ys, id) ==
  {id} \cup UNION { Subtree(ys, ys[id].kids[i]) : i \in 1..Len(ys[id].kids) }

(***************************************************************************)
(* The structural equality oracle.                                         *)
(***************************************************************************)
\* equalAttrs(pattrs, yattrs); yattrs is [def, f], def = FALSE for undefined
equalAttrs(pattrs, yattrs) ==
  LET keys == { key \in DOMAIN pattrs : pattrs[key] # Null }
      ycnt == IF ~yattrs.def THEN 0
              ELSE Cardinality({ key \in DOMAIN yattrs.f : yattrs.f[key] # Null /\ ~key.mk })
  IN /\ Cardinality(keys) = ycnt
     /\ \A key \in keys :
          \/ key = Key("ychange")
          \/ /\ key \in DOMAIN yattrs.f
             /\ LET l == pattrs[key]
                    r == yattrs.f[key]
                IN \/ StrictEq(l, r)
                   \/ (isObject(l) /\ isObject(r) /\ l.v = r.v)

Def(f) == [def |-> TRUE, f |-> f]

Undef == [def |-> FALSE, f |-> EmptyFn]

equalMarks(pmarks, yattrs) ==
  LET keys == { key \in DOMAIN yattrs : key.mk }
      pMarkAttr == nodeMarksToAttributes(pmarks)
  IN /\ Cardinality(keys) = Cardinality(pmarks)
     /\ \A key \in keys :
          /\ key \in DOMAIN pMarkAttr
          /\ equalityDeep(pMarkAttr[key], yattrs[key])

\* pmarks.find(mark => mark.type.name === markname)?.attrs
FindMarkAttrs(pmarks, markname) ==
  LET ms == { m \in pmarks : m.type = markname }
  IN IF ms = {} THEN Undef
     ELSE Def(MarkAttrs((CHOOSE m \in ms : \A o \in ms : m.id <= o.id).id))

equalYTextPText(ys, ytext, ptexts) ==
  \E delta \in { toDelta(ys, ytext) } :
    /\ Len(delta) = Len(ptexts)
    /\ \A i \in 1..Len(delta) :
         /\ delta[i].insert = ptexts[i].text
         /\ Cardinality(delta[i].attributes) = Cardinality(ptexts[i].marks)
         /\ \A at \in delta[i].attributes :
              equalAttrs(MarkAttrs(at.val), FindMarkAttrs(ptexts[i].marks, yattr2markname(at)))

\* matchNodeName(yElement, pNode); pslot is a slot of normalized content
matchNodeName(ys, yel, pslot) == ~pslot.arr /\ ys[yel].name = pslot.n[1].type

RECURSIVE equalYTypePNode(_, _, _)
equalYTypePNode(ys, ytype, pslot) ==
  IF ys[ytype].kind = "el" /\ ~pslot.arr /\ matchNodeName(ys, ytype, pslot)
  THEN \E normalizedContent \in { normalizePNodeContent(pslot.n[1]) } :
       \E ykids \in { toArray(ys, ytype) } :
         /\ Len(ykids) = Len(normalizedContent)
         /\ equalAttrs(pslot.n[1].attrs, Def(ys[ytype].attrs))
         /\ equalMarks(pslot.n[1].marks, ys[ytype].attrs)
         /\ \A i \in 1..Len(ykids) : equalYTypePNode(ys, ykids[i], normalizedContent[i])
  ELSE ys[ytype].kind = "text" /\ pslot.arr /\ equalYTextPText(ys, ytype, pslot.a)

\* mappedIdentity(meta.mapping.get(ytype), pcontent)
mappedIdentity(map, ytype, pslot) == ytype \in DOMAIN map /\ map[ytype] = pslot

(***************************************************************************)
(* The world a handler runs in.  Handlers are operators from worlds to     *)
(* worlds; an action applies one handler to the world made of the          *)
(* variables.                                                              *)
(*   ys      the shared nodes (Yjs store)                                  *)
(*   map     the live mapping table (binding.mapping)                      *)
(*   log     the shared-tree mutations of the running handler, each with   *)
(*           the transaction that committed it and that one's origin       *)
(*   tx      nesting depth of doc.transact; txid, txorg, txch, txdel: the  *)
(*           open transaction's id, origin, changed types, deleted items   *)
(*   txn     transactions created so far                                   *)
(*   tq      doc._transactionCleanups: finished, observers not yet called  *)
(*   inloop  cleanupTransactions is running                                *)
(*   err     the exception that is propagating, "none" if none             *)
(*   pn      the next unused object reference of the editable side         *)
(***************************************************************************)
NoOrigin == "null"

ySyncPluginKey == "ySyncPluginKey"

RemoteOrigin == "remote"

RECURSIVE typeChanged(_, _)
RECURSIVE cleanupTransactions(_)
RECURSIVE callObservers(_, _)

\* getRelativeSelection(binding, state): a new object at each call; the
\* objects made while a handler runs are numbered from 1
getRelativeSelection(w) == Len(w.sig) + 1

\* a listener of the document or _prosemirrorChanged has run: what
\* beforeTransactionSelection was before and what it is now
Signalled(w, sig, was) == [w EXCEPT !.sig = Append(@, [sig |-> sig, was |-> was, now |-> w.bts])]

\* a listener that does nothing
Unheard(w) == w

\* doc.on('beforeAllTransactions'): binding.beforeAllTransactions
beforeAllTransactions(w) ==
  IF w.obs.beforeAllTransactions > 0
  THEN Signalled(IF w.bts = 0 /\ w.view THEN [w EXCEPT !.bts = getRelativeSelection(w)] ELSE w, "before", w.bts)
  ELSE w

\* doc.on('afterAllTransactions'): binding.afterAllTransactions
afterAllTransactions(w) ==
  IF w.obs.afterAllTransactions > 0 THEN Signalled([w EXCEPT !.bts = 0], "after", w.bts) ELSE w

\* a doc.transact that opens a transaction of its own inside another one
BeginAnew(w, origin) ==
  [w EXCEPT !.tx = @ + 1, !.txid = w.txn + 1, !.txn = @ + 1,
            !.txorg = IF w.tx > 0 THEN @ ELSE origin,
            !.txch = IF w.tx > 0 THEN @ ELSE {}, !.txdel = IF w.tx > 0 THEN @ ELSE {}]

\* the start of doc.transact(f, origin)
Begin(w, origin) ==
  IF w.tx > 0 THEN [w EXCEPT !.tx = @ + 1]
  ELSE LET w1 == IF w.tq = <<>> /\ ~w.inloop THEN beforeAllTransactions(w) ELSE w
       IN [w1 EXCEPT !.tx = 1, !.txid = w.txn + 1, !.txn = @ + 1, !.txorg = origin,
                     !.txch = {}, !.txdel = {}]

\* the end of doc.transact(f, origin): the outermost call hands the
\* transaction to cleanupTransactions, unless that is running already
End(w) ==
  IF w.tx > 1 THEN [w EXCEPT !.tx = @ - 1]
  ELSE LET rec == [id |-> w.txid, org |-> w.txorg, changed |-> w.txch, deleted |-> w.txdel]
           w1 == [w EXCEPT !.tx = 0, !.tq = Append(@, rec)]
       IN IF w.inloop THEN w1 ELSE cleanupTransactions([w1 EXCEPT !.inloop = TRUE])

\* the ancestors of a type, the type included
RECURSIVE Ancestors(_, _)
Ancestors(ys, id) == IF id = 0 THEN {} ELSE {id} \cup Ancestors(ys, ys[id].parent)

\* what an observer throws replaces the exception thrown earlier
Thrown(w, err) == [w EXCEPT !.err = IF w.err # "none" THEN w.err ELSE err]

\* callTypeObservers and callAll of the transaction `rec`: the deep observer
\* of the fragment is called when a type under it that is still live has
\* changed
callObservers(w, rec) ==
  LET live == { t \in rec.changed : ~w.ys[t].del }
      parents == UNION { Ancestors(w.ys, t) : t \in live }
  IN IF w.obs.observeDeep > 0 /\ Root \in parents
     THEN Thrown(typeChanged([w EXCEPT !.err = "none"], [rec EXCEPT !.changed = live] @@ [parents |-> parents]),
                 w.err)
     ELSE w

\* cleanupTransactions(transactionCleanups, i); an exception thrown earlier
\* does not keep the observers of the transactions that follow from running
cleanupTransactions(w) ==
  IF w.tq = <<>> THEN afterAllTransactions([w EXCEPT !.inloop = FALSE])
  ELSE IF w.cl >= MaxCleanups
  THEN afterAllTransactions([w EXCEPT !.inloop = FALSE, !.tq = <<>>, !.err = "hang"])
  ELSE cleanupTransactions(callObservers([w EXCEPT !.tq = Tail(@), !.cl = @ + 1], Head(w.tq)))

\* transact(doc, f) of a method that changes a type: a transaction without
\* origin, unless one is open
Auto(w) == Begin(w, NoOrigin)

\* the end of the transact(doc, f) of such a method.  The binding changes
\* integrated types inside a transaction of its own only, where this end
\* just leaves f; an end that would close the transaction is reported
Inner(w) == [w EXCEPT !.tx = @ - 1, !.err = IF w.tx > 1 THEN @ ELSE "outermost"]

\* addChangedTypeToTransaction: a type that existed before the transaction
Touch(w, id) ==
  IF w.ys[id].born < w.txid /\ ~w.ys[id].del THEN [w EXCEPT !.txch = @ \cup {id}] ELSE w

Logged(w, op, id) ==
  [w EXCEPT !.log = Append(@, [op |-> op, id |-> id, tx |-> w.txid, org |-> w.txorg, fwd |-> w.fwd])]

\* a type that is not integrated into the document yet (doc === null)
Prelim(ys, id) == ys[id].born = 0

(***************************************************************************)
(* Mutations of the shared tree (Yjs).                                     *)
(***************************************************************************)
SetAttributeIn(w, id, key, val) ==
  Logged(Touch([w EXCEPT !.ys[id].attrs = FnSet(@, key, val)], id), "setAttribute", id)

\* Y.XmlElement.setAttribute
setAttribute(w, id, key, val) ==
  IF Prelim(w.ys, id) THEN [w EXCEPT !.ys[id].attrs = FnSet(@, key, val)]
  ELSE Inner(SetAttributeIn(Auto(w), id, key, val))

RemoveAttributeIn(w, id, key) ==
  IF key \in DOMAIN w.ys[id].attrs
  THEN Logged(Touch([w EXCEPT !.ys[id].attrs = FnDel(@, key)], id), "removeAttribute", id)
  ELSE w

\* Y.XmlElement.removeAttribute
removeAttribute(w, id, key) == Inner(RemoveAttributeIn(Auto(w), id, key))

\* a type that cannot be deleted
KeptItem(w, id) == w

\* item.delete(transaction) of a type: the type and everything under it
DeleteItem(w, id) ==
  IF w.ys[id].del THEN w
  ELSE LET Gone(sub) ==
             Tuple([i \in 1..Len(w.ys) |->
                      IF i \in sub THEN [w.ys[i] EXCEPT !.del = TRUE, !.chars = <<>>] ELSE w.ys[i]])
           Delete(sub) ==
             Logged([Touch(w, w.ys[id].parent) EXCEPT !.ys = Gone(sub), !.txdel = @ \cup sub], "delete", id)
       IN Delete(Subtree(w.ys, id))

RECURSIVE DeleteItems(_, _)
DeleteItems(w, ids) ==
  IF ids = <<>> THEN w ELSE DeleteItems(DeleteItem(w, Head(ids)), Tail(ids))

\* yDomFragment.delete(index, length): indices count the live children
deleteChildren(w, id, index, length) ==
  Inner(DeleteItems(Auto(w), SubSeq(toArray(w.ys, id), index + 1, index + length)))

\* the position in kids of the live child with index `index` (0-based), or
\* the end of kids
KidPos(ys, id, index) ==
  LET ks == ys[id].kids
      cands == { p \in 1..Len(ks) :
                   /\ ~ys[ks[p]].del
                   /\ Cardinality({ q \in 1..(p - 1) : ~ys[ks[q]].del }) = index }
  IN IF cands = {} THEN Len(ks) + 1 ELSE CHOOSE p \in cands : TRUE

\* integrating a preliminary subtree in the open transaction
Integrate(ys, ids, parent, txid) ==
  LET Born(sub, top) ==
        Tuple([i \in 1..Len(ys) |->
                 IF i \in top THEN [ys[i] EXCEPT !.born = txid, !.parent = parent]
                 ELSE IF i \in sub THEN [ys[i] EXCEPT !.born = txid]
                 ELSE ys[i]])
  IN Born(UNION { Subtree(ys, ids[i]) : i \in 1..Len(ids) }, { ids[i] : i \in 1..Len(ids) })

RECURSIVE LoggedAll(_, _, _)
LoggedAll(w, op, ids) ==
  IF ids = <<>> THEN w ELSE LoggedAll(Logged(w, op, Head(ids)), op, Tail(ids))

InsertIn(w, id, index, ids) ==
  IF ids = <<>> THEN w
  ELSE LET Kids(ks, pos) == SubSeq(ks, 1, pos - 1) \o ids \o SubSeq(ks, pos, Len(ks))
           ys2 == [Integrate(w.ys, ids, id, w.txid) EXCEPT ![id].kids = Kids(w.ys[id].kids, KidPos(w.ys, id, index))]
       IN LoggedAll(Touch([w EXCEPT !.ys = ys2], id), "insert", ids)

\* yDomFragment.insert(index, types)
insertChildren(w, id, index, ids) ==
  IF Prelim(w.ys, id)
  THEN [w EXCEPT !.ys = [Integrate(w.ys, ids, id, 0) EXCEPT ![id].kids = @ \o ids]]
  ELSE Inner(InsertIn(Auto(w), id, index, ids))

TextDeleteIn(w, id, index, length) ==
  LET cs == w.ys[id].chars
      n == Min(length, Len(cs) - index)
  IN IF n <= 0 THEN w
     ELSE Logged(Touch([w EXCEPT !.ys[id].chars = SubSeq(cs, 1, index) \o SubSeq(cs, index + n + 1, Len(cs))], id),
                 "textDelete", id)

\* ytext.delete(index, length)
textDelete(w, id, index, length) == Inner(TextDeleteIn(Auto(w), id, index, length))

\* ytext.insert(index, text) without attributes: the text takes the
\* formatting in effect at the position
TextInsertIn(w, id, index, text) ==
  LET cs == w.ys[id].chars
      f == IF index = 0 \/ index > Len(cs) THEN {} ELSE cs[index].f
      new == Tuple([i \in 1..Len(text) |-> Char(text[i], f)])
  IN IF text = <<>> THEN w
     ELSE Logged(Touch([w EXCEPT !.ys[id].chars = SubSeq(cs, 1, index) \o new \o SubSeq(cs, index + 1, Len(cs))], id),
                 "textInsert", id)

textInsert(w, id, index, text) == Inner(TextInsertIn(Auto(w), id, index, text))

\* the characters of a delta of inserts, each with exactly its attributes
RECURSIVE DeltaChars(_)
DeltaChars(delta) ==
  IF delta = <<>> THEN <<>>
  ELSE [i \in 1..Len(Head(delta).insert) |-> Char(Head(delta).insert[i], Head(delta).attributes)]
         \o DeltaChars(Tail(delta))

\* ytext.applyDelta of retains with attributes: a null attribute removes the
\* key, another one sets it; `fmts` gives, per character, the attributes to
\* set and the keys to remove
TextFormatIn(w, id, fmts) ==
  LET cs == w.ys[id].chars
      new == Tuple([i \in 1..Len(cs) |->
                      IF i > Len(fmts) THEN cs[i]
                      ELSE Char(cs[i].c,
                                { a \in cs[i].f : [name |-> a.name, hash |-> a.hash] \notin fmts[i].keys }
                                  \cup fmts[i].set)])
  IN IF new = cs THEN w
     ELSE Logged(Touch([w EXCEPT !.ys[id].chars = new], id), "textFormat", id)

textFormat(w, id, fmts) == Inner(TextFormatIn(Auto(w), id, fmts))

(***************************************************************************)
(* Forward direction: building shared types from editable nodes.           *)
(***************************************************************************)
Alloc(w, node) == [w EXCEPT !.ys = Append(@, node)]

\* createTypeFromTextNodes(nodes, meta); the new type's id is Len(w.ys) + 1
createTypeFromTextNodes(w, nodes) ==
  LET id == Len(w.ys) + 1
      delta == [i \in 1..Len(nodes) |->
                  [insert |-> nodes[i].text, attributes |-> marksToAttributes(nodes[i].marks)]]
      w1 == Alloc(w, YNode("text", "", EmptyFn, <<>>, DeltaChars(delta), TRUE))
  IN [w1 EXCEPT !.map = FnSet(@, id, ArrSlot(nodes))]

RECURSIVE SetAttributes(_, _, _, _)
\* setAttribute for every key of `keys` with its value in attrs
SetAttributes(w, id, attrs, keys) ==
  IF keys = <<>> THEN w
  ELSE SetAttributes(setAttribute(w, id, Head(keys), attrs[Head(keys)]), id, attrs, Tail(keys))

RECURSIVE createTypeFromTextOrElementNode(_, _)
RECURSIVE createTypeFromElementNode(_, _)
RECURSIVE createTypes(_, _, _)
\* the slots i.. of `slots`, built in order; the result's ids are in .ids
createTypes(wi, slots, i) ==
  IF i > Len(slots) THEN wi
  ELSE createTypes([w |-> createTypeFromTextOrElementNode(wi.w, slots[i]),
                    ids |-> Append(wi.ids, Len(wi.w.ys) + 1)], slots, i + 1)

\* type.insert(index, types) of the types built by createTypes
insertBuilt(built, id, index) == insertChildren(built.w, id, index, built.ids)

\* createTypeFromElementNode(node, meta); the new type's id is Len(w.ys) + 1
createTypeFromElementNode(w, node) ==
  LET id == Len(w.ys) + 1
      nodeMarksAttr == nodeMarksToAttributes(node.marks)
      own == { key \in DOMAIN node.attrs : node.attrs[key] # Null /\ key # Key("ychange") }
  IN [insertBuilt(createTypes([w |-> SetAttributes(SetAttributes(Alloc(w, YNode("el", node.type, EmptyFn, <<>>,
                                                                                <<>>, TRUE)),
                                                                  id, node.attrs, KeysInOrder(own, 1)),
                                                    id, nodeMarksAttr, KeysInOrder(DOMAIN nodeMarksAttr, 1)),
                               ids |-> <<>>],
                              normalizePNodeContent(node), 1),
                  id, 0)
      EXCEPT !.map = FnSet(@, id, ElSlot(node))]

createTypeFromTextOrElementNode(w, slot) ==
  IF slot.arr THEN createTypeFromTextNodes(w, slot.a) ELSE createTypeFromElementNode(w, slot.n[1])

(***************************************************************************)
(* Forward direction: updating a text run in place.                        *)
(***************************************************************************)
\* an event of the running handler
Ev(e, by, a, b, c) == [e |-> e, by |-> by, a |-> a, b |-> b, c |-> c]

Note(w, e, by, a, b) == [w EXCEPT !.ev = Append(@, Ev(e, by, a, b, <<>>))]

\* ytextTrans(ytext): the plain text, and the keys of the formats in it
ytextTrans(ys, ytext) ==
  [str |-> [i \in 1..Len(ys[ytext].chars) |-> ys[ytext].chars[i].c],
   nAttrs |-> UNION { { [name |-> a.name, hash |-> a.hash] : a \in ys[ytext].chars[i].f } :
                        i \in 1..Len(ys[ytext].chars) }]

\* lib0 simpleDiff(a, b): the longest common prefix, then the longest common
\* suffix of what is left
simpleDiff(a, b) ==
  LET RECURSIVE L(_)
      L(i) == IF i < Len(a) /\ i < Len(b) /\ a[i + 1] = b[i + 1] THEN L(i + 1) ELSE i
      RECURSIVE R(_, _)
      R(j, left) == IF j + left < Len(a) /\ j + left < Len(b) /\ a[Len(a) - j] = b[Len(b) - j]
                    THEN R(j + 1, left) ELSE j
      Diff(left, right) ==
        [index |-> left, remove |-> Len(a) - left - right,
         insert |-> SubSeq(b, left + 1, Len(b) - right)]
      Right(left) == Diff(left, R(0, left))
  IN Right(L(0))

\* updateYText(ytext, ptexts, meta)
updateYText(w, ytext, ptexts) ==
  LET \* content, as retains: per character the attributes and the keys set
      Fmt2(set, nAttrs) ==
        [set |-> set, keys |-> nAttrs \cup { [name |-> a.name, hash |-> a.hash] : a \in set }]
      Fmts(nAttrs) ==
        Concat([i \in 1..Len(ptexts) |->
                  [j \in 1..Len(ptexts[i].text) |-> Fmt2(marksToAttributes(ptexts[i].marks), nAttrs)]])
      Diffed(t, d) ==
        textFormat(textInsert(textDelete([w EXCEPT !.map = FnSet(@, ytext, ArrSlot(ptexts)),
                                                   !.ev = Append(@, Ev("diff", "", d.index, d.remove, d.insert))],
                                         ytext, d.index, d.remove),
                              ytext, d.index, d.insert),
                   ytext, Fmts(t.nAttrs))
  IN Diffed(ytextTrans(w.ys, ytext), simpleDiff(ytextTrans(w.ys, ytext).str, JoinText(ptexts)))

(***************************************************************************)
(* The child alignment.                                                    *)
(***************************************************************************)
RECURSIVE EqualLeft(_, _, _, _)
\* computeChildEqualityFactor, the loop from the left: the equal children
EqualLeft(w, yChildren, pChildren, left) ==
  IF /\ left < Min(Len(yChildren), Len(pChildren))
     /\ \/ mappedIdentity(w.map, yChildren[left + 1], pChildren[left + 1])
        \/ equalYTypePNode(w.ys, yChildren[left + 1], pChildren[left + 1])
  THEN EqualLeft(w, yChildren, pChildren, left + 1)
  ELSE left

RECURSIVE EqualRight(_, _, _, _, _)
\* computeChildEqualityFactor, the loop from the right
EqualRight(w, yChildren, pChildren, left, right) ==
  IF /\ left + right < Min(Len(yChildren), Len(pChildren))
     /\ \/ mappedIdentity(w.map, yChildren[Len(yChildren) - right], pChildren[Len(pChildren) - right])
        \/ equalYTypePNode(w.ys, yChildren[Len(yChildren) - right], pChildren[Len(pChildren) - right])
  THEN EqualRight(w, yChildren, pChildren, left, right + 1)
  ELSE [left |-> left, right |-> right]

\* computeChildEqualityFactor(ytype, pnode, meta)
computeChildEqualityFactor(w, ytype, pnode) ==
  LET yChildren == toArray(w.ys, ytype)
      pChildren == normalizePNodeContent(pnode)
      Factor(eq) ==
        [equalityFactor |-> eq.left + eq.right,
         foundMappedChild |->
           \/ \E l \in 0..(eq.left - 1) : mappedIdentity(w.map, yChildren[l + 1], pChildren[l + 1])
           \/ \E r \in 0..(eq.right - 1) :
                mappedIdentity(w.map, yChildren[Len(yChildren) - r], pChildren[Len(pChildren) - r])]
  IN Factor(EqualRight(w, yChildren, pChildren, EqualLeft(w, yChildren, pChildren, 0), 0))

(***************************************************************************)
(* Forward direction: reconciling a shared type with an editable node.     *)
(***************************************************************************)
RECURSIVE SetChanged(_, _, _, _, _)
\* updateYFragment, lines 1207-1217: the loop over the keys of the node
SetChanged(w, yDomFragment, yDomAttrs, attrs, keys) ==
  IF keys = <<>> THEN w
  ELSE SetChanged(IF attrs[Head(keys)] # Null
                  THEN IF /\ ~(Head(keys) \in DOMAIN yDomAttrs /\ StrictEq(yDomAttrs[Head(keys)], attrs[Head(keys)]))
                          /\ Head(keys) # Key("ychange")
                       THEN setAttribute(w, yDomFragment, Head(keys), attrs[Head(keys)])
                       ELSE w
                  ELSE removeAttribute(w, yDomFragment, Head(keys)),
                  yDomFragment, yDomAttrs, attrs, Tail(keys))

RECURSIVE RemoveAbsent(_, _, _, _)
\* updateYFragment, lines 1218-1223: the loop over the keys of the type
RemoveAbsent(w, yDomFragment, attrs, keys) ==
  IF keys = <<>> THEN w
  ELSE RemoveAbsent(IF Head(keys) \notin DOMAIN attrs THEN removeAttribute(w, yDomFragment, Head(keys)) ELSE w,
                    yDomFragment, attrs, Tail(keys))

\* updateYFragment, lines 1201-1224: the attributes of an element
UpdateAttributes(w, yDomFragment, pNode) ==
  LET yDomAttrs == w.ys[yDomFragment].attrs
      pNodeMarksAttr == nodeMarksToAttributes(pNode.marks)
      \* { ...pAttrs, ...pNodeMarksAttr }
      attrs == [key \in (DOMAIN pNode.attrs) \cup (DOMAIN pNodeMarksAttr) |->
                  IF key \in DOMAIN pNodeMarksAttr THEN pNodeMarksAttr[key] ELSE pNode.attrs[key]]
  IN IF w.ys[yDomFragment].kind # "el" THEN w
     ELSE RemoveAbsent(SetChanged(w, yDomFragment, yDomAttrs, attrs, KeysInOrder(DOMAIN attrs, 1)),
                       yDomFragment, attrs, KeysInOrder(DOMAIN yDomAttrs, 1))

RECURSIVE ScanLeft(_, _, _, _)
\* updateYFragment, lines 1232-1243: the matching children from the left
ScanLeft(s, yChildren, pChildren, minCnt) ==
  IF s.left >= minCnt THEN s
  ELSE IF mappedIdentity(s.w.map, yChildren[s.left + 1], pChildren[s.left + 1])
  THEN ScanLeft([s EXCEPT !.left = @ + 1], yChildren, pChildren, minCnt)
  ELSE IF equalYTypePNode(s.w.ys, yChildren[s.left + 1], pChildren[s.left + 1])
  THEN ScanLeft([s EXCEPT !.w.map = FnSet(@, yChildren[s.left + 1], pChildren[s.left + 1]), !.left = @ + 1],
                yChildren, pChildren, minCnt)
  ELSE s

RECURSIVE ScanRight(_, _, _, _)
\* updateYFragment, lines 1245-1256: the matching children from the right
ScanRight(s, yChildren, pChildren, minCnt) ==
  IF s.right + s.left >= minCnt THEN s
  ELSE IF mappedIdentity(s.w.map, yChildren[Len(yChildren) - s.right], pChildren[Len(pChildren) - s.right])
  THEN ScanRight([s EXCEPT !.right = @ + 1], yChildren, pChildren, minCnt)
  ELSE IF equalYTypePNode(s.w.ys, yChildren[Len(yChildren) - s.right], pChildren[Len(pChildren) - s.right])
  THEN ScanRight([s EXCEPT !.w.map = FnSet(@, yChildren[Len(yChildren) - s.right],
                                           pChildren[Len(pChildren) - s.right]),
                           !.right = @ + 1],
                 yChildren, pChildren, minCnt)
  ELSE s

\* a comparison that sends a tie to the right side
LessOrEqual(equalityLeft, equalityRight) == equalityLeft <= equalityRight

\* line 1296: equalityLeft.equalityFactor < equalityRight.equalityFactor
Less(equalityLeft, equalityRight) == equalityLeft < equalityRight

\* updateYFragment, lines 1270-1301: which side to descend into
ChooseSide(w, leftY, leftP, rightY, rightP) ==
  LET updateLeft == w.ys[leftY].kind = "el" /\ matchNodeName(w.ys, leftY, leftP)
      updateRight == w.ys[rightY].kind = "el" /\ matchNodeName(w.ys, rightY, rightP)
      Decide(equalityLeft, equalityRight) ==
        IF equalityLeft.foundMappedChild /\ ~equalityRight.foundMappedChild
        THEN [updateLeft |-> TRUE, updateRight |-> FALSE]
        ELSE IF ~equalityLeft.foundMappedChild /\ equalityRight.foundMappedChild
        THEN [updateLeft |-> FALSE, updateRight |-> TRUE]
        ELSE IF Less(equalityLeft.equalityFactor, equalityRight.equalityFactor)
        THEN [updateLeft |-> FALSE, updateRight |-> TRUE]
        ELSE [updateLeft |-> TRUE, updateRight |-> FALSE]
  IN IF updateLeft /\ updateRight
     THEN Decide(computeChildEqualityFactor(w, leftY, leftP.n[1]),
                 computeChildEqualityFactor(w, rightY, rightP.n[1]))
     ELSE [updateLeft |-> updateLeft, updateRight |-> updateRight]

RECURSIVE updateYFragment(_, _, _)
RECURSIVE Middle(_, _, _, _)
RECURSIVE Descend(_, _, _, _, _)
\* updateYFragment, lines 1302-1325: the child on the chosen side is updated,
\* or the left child is deleted and a new one takes its place
Descend(s, yDomFragment, yChildren, pChildren, side) ==
  IF side.updateLeft
  THEN [s EXCEPT !.w = updateYFragment(Note(@, "middle", "left", yChildren[s.left + 1], s.left + s.right),
                                       yChildren[s.left + 1], pChildren[s.left + 1].n[1]),
                 !.left = @ + 1]
  ELSE IF side.updateRight
  THEN [s EXCEPT !.w = updateYFragment(Note(@, "middle", "right", yChildren[Len(yChildren) - s.right],
                                            s.left + s.right),
                                       yChildren[Len(yChildren) - s.right],
                                       pChildren[Len(pChildren) - s.right].n[1]),
                 !.right = @ + 1]
  ELSE [s EXCEPT !.w = insertChildren(createTypeFromTextOrElementNode(
                                        deleteChildren([Note(s.w, "middle", "replace", yChildren[s.left + 1],
                                                             s.left + s.right)
                                                          EXCEPT !.map = FnDel(@, toArray(s.w.ys, yDomFragment)[s.left + 1])],
                                                       yDomFragment, s.left, 1),
                                        pChildren[s.left + 1]),
                                      yDomFragment, s.left, << Len(s.w.ys) + 1 >>),
                 !.left = @ + 1]

\* updateYFragment, lines 1259-1327: the loop over the dirty middle
Middle(s, yDomFragment, yChildren, pChildren) ==
  IF ~(Len(yChildren) - s.left - s.right > 0 /\ Len(pChildren) - s.left - s.right > 0)
  THEN s
  ELSE LET leftY == yChildren[s.left + 1]
           leftP == pChildren[s.left + 1]
           rightY == yChildren[Len(yChildren) - s.right]
           rightP == pChildren[Len(pChildren) - s.right]
       IN Middle(IF s.w.ys[leftY].kind = "text" /\ leftP.arr
                 THEN [s EXCEPT !.w = IF ~equalYTextPText(s.w.ys, leftY, leftP.a)
                                      THEN updateYText(@, leftY, leftP.a) ELSE @,
                                !.left = @ + 1]
                 ELSE Descend(s, yDomFragment, yChildren, pChildren, ChooseSide(s.w, leftY, leftP, rightY, rightP)),
                 yDomFragment, yChildren, pChildren)

\* the children that are left are deleted, a lone text run as well
RemoveAll(s, yDomFragment, yChildren, pChildren) ==
  LET yDelLen == Len(yChildren) - s.left - s.right
      gone == SubSeq(toArray(s.w.ys, yDomFragment), s.left + 1, s.left + yDelLen)
  IN IF yDelLen > 0
     THEN [s EXCEPT !.w = deleteChildren([@ EXCEPT !.map = FnDelAll(@, { gone[i] : i \in 1..Len(gone) })],
                                         yDomFragment, s.left, yDelLen)]
     ELSE s

\* updateYFragment, lines 1328-1338: the children of the type that are left
RemoveRest(s, yDomFragment, yChildren, pChildren) ==
  LET yDelLen == Len(yChildren) - s.left - s.right
      gone == SubSeq(toArray(s.w.ys, yDomFragment), s.left + 1, s.left + yDelLen)
  IN IF Len(yChildren) = 1 /\ Len(pChildren) = 0 /\ s.w.ys[yChildren[1]].kind = "text"
     THEN [s EXCEPT !.w = textDelete([@ EXCEPT !.map = FnDel(@, yChildren[1])], yChildren[1], 0,
                                     Len(s.w.ys[yChildren[1]].chars))]
     ELSE IF yDelLen > 0
     THEN [s EXCEPT !.w = deleteChildren([@ EXCEPT !.map = FnDelAll(@, { gone[i] : i \in 1..Len(gone) })],
                                         yDomFragment, s.left, yDelLen)]
     ELSE s

\* updateYFragment, lines 1339-1346: the children of the node that are left
Rest(s, yDomFragment, pChildren) ==
  IF s.left + s.right < Len(pChildren)
  THEN insertBuilt(createTypes([w |-> s.w, ids |-> <<>>],
                               SubSeq(pChildren, s.left + 1, Len(pChildren) - s.right), 1),
                   yDomFragment, s.left)
  ELSE s.w

\* y.transact(f, ySyncPluginKey) of updateYFragment, around the loop
Transacting(s, origin) == [s EXCEPT !.w = Begin(@, origin)]

\* a test of the node name that comes after the entry is set
MismatchAfterSet(w, yDomFragment, pNode) ==
  [w EXCEPT !.map = FnSet(@, yDomFragment, ElSlot(pNode)), !.err = "node name mismatch!"]

\* updateYFragment, lines 1193-1198: throw new Error('node name mismatch!')
Mismatch(w, yDomFragment, pNode) == [w EXCEPT !.err = "node name mismatch!"]

\* updateYFragment(y, yDomFragment, pNode, meta): the attributes, the
\* matching children from both ends and, in a transaction, the middle
updateYFragment(w, yDomFragment, pNode) ==
  IF w.ys[yDomFragment].kind = "el" /\ w.ys[yDomFragment].name # pNode.type
  THEN Mismatch(w, yDomFragment, pNode)
  ELSE LET yChildren == toArray(w.ys, yDomFragment)
           pChildren == normalizePNodeContent(pNode)
           minCnt == Min(Len(pChildren), Len(yChildren))
       IN Inner(Rest(RemoveRest(Middle(Transacting(ScanRight(ScanLeft(
                  [w |-> UpdateAttributes([w EXCEPT !.map = FnSet(@, yDomFragment, ElSlot(pNode))],
                                          yDomFragment, pNode),
                   left |-> 0, right |-> 0],
                  yChildren, pChildren, minCnt), yChildren, pChildren, minCnt), ySyncPluginKey),
                  yDomFragment, yChildren, pChildren), yDomFragment, yChildren, pChildren),
                  yDomFragment, pChildren))

(***************************************************************************)
(* The schema of the editable tree (ProseMirror): the document holds "p"   *)
(* and "img" nodes, a "p" holds text and "img" nodes, an "img" holds       *)
(* nothing; every element type has the one attribute "a", default null.    *)
(* schema.node, schema.text and schema.mark throw on what the schema does  *)
(* not allow.                                                              *)
(***************************************************************************)
NodeTypes == {"p", "img"}

\* schema.mark(name, attrs) does not throw: the type exists and "comment"
\* gets its required attribute id
MarkOk(name, id) == name \in MarkTypes /\ (name = "comment" => id # 0)

\* a schema whose mark types declare no attributes
SchemaMarkBare(name, id) == Mark(name, 0)

\* schema.mark(name, attrs): attributes the type does not declare are dropped
SchemaMark(name, id) == Mark(name, IF name = "comment" THEN id ELSE 0)

\* type.checkContent(content)
ContentOk(name, content) ==
  CASE name = "p" -> \A i \in 1..Len(content) : content[i].type \in {"text", "img"}
    [] name = "img" -> content = <<>>
    [] OTHER -> FALSE

\* the value of `attrs[key]` passed to schema.node, null when absent
AttrOr(attrs, key) == IF key \in DOMAIN attrs THEN attrs[key] ELSE Null

RECURSIVE JoinAdjacent(_, _)
\* Fragment.fromArray: adjacent text nodes with the same marks become one
\* new text node; `pn` is the next unused reference.  [c, pn]
JoinAdjacent(c, pn) ==
  IF Len(c) < 2 THEN [c |-> c, pn |-> pn]
  ELSE IF isText(c[1]) /\ isText(c[2]) /\ c[1].marks = c[2].marks
  THEN JoinAdjacent(<<PText(pn, c[1].text \o c[2].text, c[1].marks)>> \o SubSeq(c, 3, Len(c)), pn + 1)
  ELSE LET rest == JoinAdjacent(Tail(c), pn)
       IN [c |-> <<c[1]>> \o rest.c, pn |-> rest.pn]

(***************************************************************************)
(* Reverse direction: building editable nodes from shared types.  `meta`   *)
(* names the mapping table that is written: "map" is the binding's live    *)
(* table, "smap" the table made for one snapshot render.                   *)
(***************************************************************************)
MapOf(w, meta) == IF meta = "map" THEN w.map ELSE w.smap

\* a build that knows the live table only
WithLiveMap(w, meta, m) == [w EXCEPT !.map = m]

WithMap(w, meta, m) == IF meta = "map" THEN [w EXCEPT !.map = m] ELSE [w EXCEPT !.smap = m]

Failed(w) == w.err # "none"

\* the catch block of a failed construction is entered for `type`, with
\* w.tx transactions open
Caught(w, kind, type) == Note(w, "healed", kind, type, w.tx)

\* createTextNodesFromYText(text, schema, _meta): [w, n]; n is <<>> for null
createTextNodesFromYText(w, text) ==
  LET deltas == toDelta(w.ys, text)
  IN IF \E i \in 1..Len(deltas) : \E a \in deltas[i].attributes : ~MarkOk(yattr2markname(a), a.val)
     THEN [w |-> End(DeleteItem(Begin(Caught(w, "text", text), ySyncPluginKey), text)), n |-> <<>>]
     ELSE [w |-> [w EXCEPT !.pn = @ + Len(deltas)],
           n |-> [i \in 1..Len(deltas) |->
                    PText(w.pn + i - 1, deltas[i].insert,
                          { SchemaMark(yattr2markname(a), a.val) : a \in deltas[i].attributes })]]

\* the type right of `type` in its parent's list, tombstones included; 0 if
\* there is none
RightOf(ys, type) ==
  LET ks == ys[ys[type].parent].kids
      p == CHOOSE i \in 1..Len(ks) : ks[i] = type
  IN IF p < Len(ks) THEN ks[p + 1] ELSE 0

\* type.applyDelta([{retain: type.length}, ...delta]): what is inserted into
\* a deleted type is deleted at once
AppendDeltaIn(w, type, delta) ==
  IF delta = <<>> THEN w
  ELSE Logged(Touch([w EXCEPT !.ys[type].chars = IF w.ys[type].del THEN <<>> ELSE @ \o DeltaChars(delta)], type),
              "textInsert", type)

\* createChildren, lines 754-766: the text run right of `type` is moved
\* into `type`
MergeNext(w, type) ==
  LET nextytext == RightOf(w.ys, type)
  IN IF nextytext # 0 /\ w.ys[nextytext].kind = "text" /\ ~w.ys[nextytext].del /\ w.ys[nextytext].client
     THEN End(DeleteItem(Begin(End(AppendDeltaIn(Auto(w), type, toDelta(w.ys, nextytext))), NoOrigin),
                         nextytext))
     ELSE w

\* children.push(n) for the nodes n of r, in r's state
Pushed(children, r) == [w |-> r.w, children |-> children \o r.n]

\* meta.mapping.delete(el)
Unmapped(w, meta, el) == WithMap(w, meta, FnDel(MapOf(w, meta), el))

RECURSIVE createNodeFromYElement(_, _, _)
RECURSIVE createNode(_, _, _, _)
RECURSIVE createChildren(_, _, _, _)
\* el.toArray().forEach(createChildren): [w, children]
createChildren(wc, types, i, meta) ==
  IF i > Len(types) \/ Failed(wc.w) THEN wc
  ELSE createChildren(Pushed(wc.children,
                             IF wc.w.ys[types[i]].kind = "el"
                             THEN createNode(wc.w, types[i], meta, TRUE)
                             ELSE IF wc.w.ys[types[i]].kind # "text"
                             \* a hook has neither applyDelta nor toDelta
                             THEN [w |-> [wc.w EXCEPT !.err = "TypeError"], n |-> <<>>]
                             ELSE createTextNodesFromYText(MergeNext(wc.w, types[i]), types[i])),
                      types, i + 1, meta)

\* createNodeFromYElement, lines 791-829: schema.node(...) of the children
\* built; [w, n]
SchemaNode(built, el, meta) ==
  LET w1 == built.w
      attrs == w1.ys[el].attrs
      \* schema.mark(markName, markValue.attrs): the attrs of a value that is
      \* no mark.toJSON() are undefined
      MarkId(key) == IF attrs[key].k = "mark" THEN attrs[key].v ELSE 0
      \* the keys with the prefix whose value is an object
      markKeys == { key \in DOMAIN attrs : key.mk /\ isObject(attrs[key]) }
      joined == JoinAdjacent(built.children, w1.pn)
      node == PElem(joined.pn, w1.ys[el].name, [key \in {Key("a")} |-> AttrOr(attrs, key)],
                    { SchemaMark(key.name, MarkId(key)) : key \in markKeys }, joined.c)
  IN IF Failed(w1) THEN [w |-> w1, n |-> <<>>]
     ELSE IF /\ \A key \in markKeys : MarkOk(key.name, MarkId(key))
             /\ w1.ys[el].name \in NodeTypes
             /\ ContentOk(w1.ys[el].name, joined.c)
     \* meta.mapping.set(el, node); return node
     THEN [w |-> WithMap([w1 EXCEPT !.pn = joined.pn + 1], meta, FnSet(MapOf(w1, meta), el, ElSlot(node))),
           n |-> <<node>>]
     \* catch (e): el is deleted; return null
     ELSE [w |-> Unmapped(End(DeleteItem(Begin(Caught(w1, "el", el), ySyncPluginKey), el)), meta, el), n |-> <<>>]

\* createNodeFromYElement(el, schema, meta): [w, n]; n is <<>> for null
createNodeFromYElement(w, el, meta) ==
  IF w.ys[el].kind # "el"
  \* a text run and a hook have no toArray
  THEN [w |-> [w EXCEPT !.err = "TypeError"], n |-> <<>>]
  ELSE SchemaNode(createChildren([w |-> w, children |-> <<>>], toArray(w.ys, el), 1, meta), el, meta)

\* createNodeIfNotExists(el, schema, meta) when `reuse`, createNodeFromYElement
\* otherwise: [w, n]
createNode(w, el, meta, reuse) ==
  IF reuse /\ el \in DOMAIN MapOf(w, meta)
  \* (the table maps no top-level text run: the schema has no text there)
  THEN [w |-> w, n |-> MapOf(w, meta)[el].n]
  ELSE IF reuse /\ w.ys[el].kind # "el"
  THEN [w |-> [w EXCEPT !.err = "methodUnimplemented"], n |-> <<>>]
  ELSE createNodeFromYElement(w, el, meta)

\* createNodeIfNotExists(el, schema, meta): [w, n]
createNodeIfNotExists(w, el, meta) == createNode(w, el, meta, TRUE)

RECURSIVE createNodes(_, _, _, _, _)
\* types.map(t => create(t, schema, meta)).filter(n => n !== null), with
\* create = createNodeIfNotExists when `reuse`, else createNodeFromYElement
createNodes(wc, types, i, meta, reuse) ==
  IF i > Len(types) \/ Failed(wc.w) THEN wc
  ELSE createNodes(Pushed(wc.children, createNode(wc.w, types[i], meta, reuse)), types, i + 1, meta, reuse)

(***************************************************************************)
(* The plugin state and the editor.                                        *)
(*   view    binding.prosemirrorView !== null                              *)
(*   obs     how often the deep observer of the fragment and the two       *)
(*           transaction listeners of the document are registered          *)
(*   doc     view.state.doc                                                *)
(*   ps      the plugin state of view.state; psid names the object that    *)
(*           holds it (state.apply copies it when the transaction carries  *)
(*           a change for the plugin)                                      *)
(*   icc     initialContentChanged                                         *)
(*   bts     binding.beforeTransactionSelection: 0 for null, or the       *)
(*           selection that was captured                                   *)
(*   sig     what the listeners of the transactions of the document and    *)
(*           _prosemirrorChanged did to it, in order                       *)
(*   tasks   the callbacks queued with eventloop.timeout(0, ...)           *)
(*   mux     the token of binding.mux is taken                             *)
(*   fwd     the forward synchronization of a view update is running       *)
(*   ev      what the running handler did, in order                        *)
(***************************************************************************)
NoSnap == [s |-> "null", v |-> 0]

\* Y.snapshot(doc)
Snap == [s |-> "snap", v |-> 1]

\* Y.createSnapshot(Y.createDeleteSet(), new Map())
EmptySnap == [s |-> "snap", v |-> 0]

\* the state the plugin's init returns
InitPluginState ==
  [snapshot |-> NoSnap, prevSnapshot |-> NoSnap, restore |-> FALSE,
   isChangeOrigin |-> FALSE, isUndoRedoOperation |-> FALSE, addToHistory |-> TRUE]

\* tr.getMeta(ySyncPluginKey) === undefined
NoMeta ==
  [has |-> FALSE, snap |-> FALSE, snapshot |-> NoSnap, prevSnapshot |-> NoSnap,
   restore |-> FALSE, isChangeOrigin |-> FALSE, isUndoRedoOperation |-> FALSE]

\* {isChangeOrigin: true, isUndoRedoOperation: u}
OriginMeta(u) == [NoMeta EXCEPT !.has = TRUE, !.isChangeOrigin = TRUE, !.isUndoRedoOperation = u]

\* {snapshot, prevSnapshot}
SnapMeta(snapshot, prevSnapshot) ==
  [NoMeta EXCEPT !.has = TRUE, !.snap = TRUE, !.snapshot = snapshot, !.prevSnapshot = prevSnapshot]

\* {snapshot, prevSnapshot, restore: true}
RestoreMeta(snapshot) == [SnapMeta(snapshot, snapshot) EXCEPT !.restore = TRUE]

\* an event that carries document content
NoteContent(w, e, by, c) == [w EXCEPT !.ev = Append(@, Ev(e, by, 0, 0, c))]

\* a mutex that lets a call in while another one runs
NeverTaken(w) == FALSE

\* binding.mux(f): f runs unless the token is taken (Taken); the token is
\* taken while f runs (Acquire) and given back when f returns or throws
\* (Release)
Taken(w) == w.mux

Acquire(w) == [w EXCEPT !.mux = TRUE]

Release(w) == [w EXCEPT !.mux = FALSE]

\* view.state.doc.type.createAndFill().content: one empty paragraph
DefaultContent == << PElem(0, "p", [key \in {Key("a")} |-> Null], {}, <<>>) >>

\* content.findDiffStart(other) !== null
Differs(content, other) == StripSeq(content) # StripSeq(other)

\* this.beforeTransactionSelection = getRelativeSelection(...), not reached
\* when updateYFragment threw
Selected(w) ==
  IF Failed(w) THEN w ELSE Signalled([w EXCEPT !.bts = getRelativeSelection(w)], "changed", w.bts)

\* props.editable
editable(ps) == ps.snapshot = NoSnap /\ ps.prevSnapshot = NoSnap

\* _prosemirrorChanged(doc); the event tells whether the plugin state of
\* the view holds a snapshot when it runs
prosemirrorChanged(w, doc) ==
  End(Selected(updateYFragment(Begin(Note(w, "forward", IF editable(w.ps) THEN "" ELSE "snapshot", 0, 0),
                                     ySyncPluginKey),
                               Root, doc)))

\* the plugin's state.apply(tr, pluginState); a transaction that changes the
\* snapshot queues the render
Apply(w, tr) ==
  LET change == tr.meta
      ps1 == IF change.has
             THEN [w.ps EXCEPT !.snapshot = IF change.snap THEN change.snapshot ELSE @,
                               !.prevSnapshot = IF change.snap THEN change.prevSnapshot ELSE @,
                               !.restore = IF change.restore THEN TRUE ELSE @]
             ELSE w.ps
      ps2 == [ps1 EXCEPT !.addToHistory = tr.hist,
                         !.isChangeOrigin = change.has /\ change.isChangeOrigin,
                         !.isUndoRedoOperation = change.has /\ change.isChangeOrigin /\ change.isUndoRedoOperation]
      id == IF change.has THEN w.psid + 1 ELSE w.psid
      queue == /\ w.view
               /\ change.has
               /\ (change.snapshot # NoSnap \/ change.prevSnapshot # NoSnap)
  IN [w EXCEPT !.ps = ps2, !.psid = id, !.doc = tr.doc,
               !.tasks = IF queue THEN Append(@, [change |-> change, psid |-> id]) ELSE @]

\* what the update of the plugin view did to the world `before`, and what
\* it found there: the latch, a document that differs from the default one,
\* a snapshot in the plugin state, the token of the mutex taken
Updated(before, w, by) ==
  [w EXCEPT !.ev = Append(@, Ev("update", by,
       IF \E i \in (Len(before.ev) + 1)..Len(w.ev) : w.ev[i].e = "forward" THEN 1 ELSE 0,
       Len(w.log) - Len(before.log),
       [icc |-> before.icc, differs |-> Differs(before.doc.content, DefaultContent),
        snapshot |-> before.ps.snapshot # NoSnap \/ before.ps.prevSnapshot # NoSnap, taken |-> Taken(before)]))]

\* a plugin without the latch
Unlatched(w) == FALSE

\* initialContentChanged
Latched(w) == w.icc

\* the plugin view's update()
viewUpdate(w, by) ==
  Updated(w,
          IF w.ps.snapshot = NoSnap /\ w.ps.prevSnapshot = NoSnap
          THEN IF Latched(w) \/ Differs(w.doc.content, DefaultContent)
               THEN IF Taken(w) THEN [w EXCEPT !.icc = TRUE]
                    ELSE Release([End(prosemirrorChanged([Begin(Acquire(w), ySyncPluginKey)
                                                            EXCEPT !.icc = TRUE, !.fwd = TRUE],
                                                         w.doc))
                                    EXCEPT !.fwd = FALSE])
               ELSE w
          ELSE w,
          by)

\* view.dispatch(tr): the new state is applied, then the plugin views are
\* updated
dispatch(w, tr) ==
  IF w.depth >= MaxDepth THEN [w EXCEPT !.err = "RangeError"]
  ELSE [viewUpdate(Apply([w EXCEPT !.depth = @ + 1,
                                   !.ev = Append(@, Ev("dispatch", tr.by,
                                                       IF tr.meta.has /\ tr.meta.isChangeOrigin THEN 1 ELSE 0,
                                                       IF tr.hist THEN 1 ELSE 0, tr.doc.content))],
                         tr),
                   tr.by)
          EXCEPT !.depth = w.depth]

\* a transaction that takes part in the history of the editor
ReplaceTrInHistory(w, fragmentContent, meta, by) ==
  [doc |-> PElem(w.pn, "doc", EmptyFn, {}, fragmentContent), meta |-> meta, hist |-> TRUE, by |-> by]

\* this._tr.replace(0, size, new Slice(Fragment.from(fragmentContent), 0, 0))
\* with its meta: addToHistory is false
ReplaceTr(w, fragmentContent, meta, by) ==
  LET old == w.doc.content
      from == 0
      to == Len(old)
  IN [doc |-> PElem(w.pn, "doc", EmptyFn, {},
                    SubSeq(old, 1, from) \o fragmentContent \o SubSeq(old, to + 1, Len(old))),
      meta |-> meta, hist |-> FALSE, by |-> by]

\* renderSnapshot(snapshot, prevSnapshot)
renderSnapshot(w, snapshot, prevSnapshot) ==
  dispatch(w, [doc |-> w.doc, hist |-> FALSE, by |-> "snapshot",
               meta |-> SnapMeta(snapshot, IF prevSnapshot = NoSnap THEN EmptySnap ELSE prevSnapshot)])

\* the nodes built replace the content of the document: tr.replace(...),
\* tr.setMeta(ySyncPluginKey, meta), view.dispatch(tr)
Replaced(built, meta, by) ==
  IF Failed(built.w) THEN built.w
  ELSE dispatch(IF by = "reverse"
                THEN NoteContent([built.w EXCEPT !.pn = @ + 1], "built", "reverse", built.children)
                ELSE [built.w EXCEPT !.pn = @ + 1],
                ReplaceTr(built.w, built.children, meta, by))

\* _typeChanged, lines 606-645: the body run under the mutex
ReverseSync(w, transaction) ==
  Replaced(createNodes([w |-> [w EXCEPT !.map = FnDelAll(@, transaction.deleted \cup transaction.changed
                                                              \cup transaction.parents)],
                        children |-> <<>>],
                       toArray(w.ys, Root), 1, "map", TRUE),
           OriginMeta(transaction.org = "UndoManager"), "reverse")

\* an observer that synchronizes outside of the mutex
typeChangedUnguarded(w, transaction) ==
  IF ~w.view THEN w
  ELSE Note(IF w.ps.snapshot # NoSnap \/ w.ps.prevSnapshot # NoSnap
            THEN renderSnapshot(w, w.ps.snapshot, w.ps.prevSnapshot)
            ELSE ReverseSync(w, transaction),
            "observer", "free", 0, 1)

\* _typeChanged(events, transaction)
typeChanged(w, transaction) ==
  IF ~w.view THEN w
  ELSE LET before == w
           Sent(w1) == Cardinality({ i \in (Len(before.ev) + 1)..Len(w1.ev) : w1.ev[i].e = "dispatch" })
           Kind(w1) == IF before.fwd THEN "forward"
                       ELSE IF before.ps.snapshot # NoSnap \/ before.ps.prevSnapshot # NoSnap THEN "snapshot"
                       ELSE IF before.mux THEN "held"
                       ELSE IF Failed(w1) THEN "failed" ELSE "free"
           Observed(w1) ==
             Note(w1, "observer", Kind(w1), Cardinality((DOMAIN before.map) \ (DOMAIN w1.map)), Sent(w1))
       IN Observed(IF w.ps.snapshot # NoSnap \/ w.ps.prevSnapshot # NoSnap
                   THEN renderSnapshot(w, w.ps.snapshot, w.ps.prevSnapshot)
                   ELSE IF Taken(w) THEN w
                   ELSE Release(ReverseSync(Acquire(w), transaction)))

\* fragment.toArray().map(t => createNodeFromYElement(t, schema, meta)),
\* replaced into the document and dispatched with `meta`
Rerender(w, table, meta, by) ==
  Replaced(createNodes([w |-> w, children |-> <<>>], toArray(w.ys, Root), 1, table, FALSE), meta, by)

\* unrenderSnapshot()
unrenderSnapshot(w) ==
  IF Taken(w) THEN [w EXCEPT !.map = EmptyFn]
  ELSE Release(Rerender(Acquire([w EXCEPT !.map = EmptyFn]), "map", SnapMeta(NoSnap, NoSnap), "unrender"))

\* _forceRerender()
forceRerender(w) ==
  IF Taken(w) THEN [w EXCEPT !.map = EmptyFn]
  ELSE Release(Rerender(Acquire([w EXCEPT !.map = EmptyFn]), "map", OriginMeta(FALSE), "rerender"))

\* _renderSnapshot returns: the sizes of the live table and of the table of
\* the render
Rendered(w) == Note(w, "rendered", "", Cardinality(DOMAIN w.map), Cardinality(DOMAIN w.smap))

\* _renderSnapshot(snapshot, prevSnapshot, pluginState): the types are
\* rendered with a mapping table of their own; the rendered state is the
\* one the fragment has now
RenderSnapshotNow(w) ==
  Rendered(IF Taken(w) THEN [w EXCEPT !.map = EmptyFn]
           ELSE Release(End(Rerender([Begin(Acquire(Note(w, "rendering", "", 0, 0)), ySyncPluginKey)
                                        EXCEPT !.map = EmptyFn, !.smap = EmptyFn],
                                      "smap", OriginMeta(FALSE), "render"))))

\* the callback queued by state.apply, lines 166-185: the restore of the
\* live document after the snapshot was rendered
Restore(w, task) ==
  IF ~task.change.restore \/ Failed(w) THEN w
  \* the three keys are deleted from the object state.apply returned
  ELSE IF Taken(w)
  THEN IF w.psid = task.psid
       THEN [w EXCEPT !.ps.restore = FALSE, !.ps.snapshot = NoSnap, !.ps.prevSnapshot = NoSnap]
       ELSE w
  ELSE Release(prosemirrorChanged(
                 Acquire(IF w.psid = task.psid
                         THEN [w EXCEPT !.ps.restore = FALSE, !.ps.snapshot = NoSnap, !.ps.prevSnapshot = NoSnap]
                         ELSE w),
                 w.doc))

\* a callback that does not look whether a view is attached
runDetached(w, task) == Restore(RenderSnapshotNow(w), task)

\* the callback queued by state.apply, lines 161-187
runTask(w, task) == IF ~w.view THEN w ELSE Restore(RenderSnapshotNow(w), task)

\* no observer and no listener is registered
NoListeners == [observeDeep |-> 0, beforeAllTransactions |-> 0, afterAllTransactions |-> 0]

\* each is registered once
ListenersOnce == [observeDeep |-> 1, beforeAllTransactions |-> 1, afterAllTransactions |-> 1]

\* doc.on(name, f), type.observeDeep(f)
on(l, name) == [l EXCEPT ![name] = @ + 1]

\* doc.off(name, f), type.unobserveDeep(f)
off(l, name) == [l EXCEPT ![name] = 0]

\* destroy()
destroy(w) ==
  IF ~w.view THEN Note(w, "detach", "none", 0, 0)
  ELSE Note([w EXCEPT !.view = FALSE,
                      !.obs = off(off(off(@, "observeDeep"), "beforeAllTransactions"), "afterAllTransactions")],
            "detach", "attached", 0, 0)

\* initView without line 666
StillAttached(w) == w

\* line 666: if (this.prosemirrorView != null) this.destroy()
Detached(w) == IF w.view THEN destroy(w) ELSE w

\* initView(prosemirrorView)
initView(w) ==
  [Detached(Note(w, "attach", IF w.view THEN "attached" ELSE "none", 0, 0))
     EXCEPT !.view = TRUE,
            !.obs = on(on(on(@, "beforeAllTransactions"), "afterAllTransactions"), "observeDeep")]

(***************************************************************************)
(* The state of the binding between two handlers.  While no handler runs   *)
(* no transaction is open and the mutex is free.                           *)
(* beforeTransactionSelection is what the last handler left in it, signals *)
(* what the listeners did to it while the last handler ran; differed tells *)
(* whether a handler has left a view with a document that differs from the *)
(* default one.                                                            *)
(***************************************************************************)
VARIABLES ys, mapping, prosemirrorView, listeners, beforeTransactionSelection, signals, differed, doc, pluginState,
          psid, initialContentChanged, tasks, pn, ev, log, lastErr, steps, input

vars == << ys, mapping, prosemirrorView, listeners, beforeTransactionSelection, signals, differed, doc, pluginState,
           psid, initialContentChanged, tasks, pn, ev, log, lastErr, steps, input >>

\* the world a handler starts in
World ==
  [ys |-> ys, map |-> mapping, smap |-> EmptyFn, log |-> <<>>, tx |-> 0, txid |-> 1, txorg |-> NoOrigin,
   txn |-> 1, txch |-> {}, txdel |-> {}, tq |-> <<>>, inloop |-> FALSE, cl |-> 0, err |-> "none", pn |-> pn,
   obs |-> listeners, view |-> prosemirrorView, doc |-> doc, ps |-> pluginState, psid |-> psid,
   icc |-> initialContentChanged, bts |-> beforeTransactionSelection, sig |-> <<>>, tasks |-> tasks, mux |-> FALSE, fwd |-> FALSE,
   depth |-> 0, ev |-> <<>>]

\* the state a handler leaves behind
Commit(r) ==
  /\ ys' = Tuple([i \in 1..Len(r.ys) |-> [r.ys[i] EXCEPT !.born = IF @ > 0 THEN 1 ELSE 0]])
  /\ mapping' = r.map
  /\ prosemirrorView' = r.view
  /\ listeners' = r.obs
  /\ beforeTransactionSelection' = r.bts
  /\ signals' = r.sig
  /\ differed' = (differed \/ (r.view /\ Differs(r.doc.content, DefaultContent)))
  /\ doc' = r.doc
  /\ pluginState' = r.ps
  /\ psid' = r.psid
  /\ initialContentChanged' = r.icc
  /\ tasks' = r.tasks
  /\ pn' = r.pn
  /\ ev' = r.ev
  /\ log' = r.log
  /\ lastErr' = r.err
  /\ steps' = steps + 1
  /\ input' = input

\* the fragment of a new Y.Doc
EmptyFragment == [YNode("frag", "", EmptyFn, <<>>, <<>>, FALSE) EXCEPT !.born = 1]

\* EditorState.create({schema, plugins}): the default document
DefaultDoc == PElem(0, "doc", EmptyFn, {}, DefaultContent)

Init ==
  /\ ys = << EmptyFragment >>
  /\ mapping = EmptyFn
  /\ prosemirrorView = FALSE
  /\ listeners = NoListeners
  /\ beforeTransactionSelection = 0
  /\ signals = <<>>
  /\ differed = FALSE
  /\ doc = DefaultDoc
  /\ pluginState = InitPluginState
  /\ psid = 0
  /\ initialContentChanged = FALSE
  /\ tasks = <<>>
  /\ pn = 1
  /\ ev = <<>>
  /\ log = <<>>
  /\ lastErr = "none"
  /\ steps = 0
  /\ input = <<>>

(***************************************************************************)
(* The edits of the user.  An edit makes a new document: the nodes on the  *)
(* path to the change are new objects, the other ones are shared with the  *)
(* old document.  `r` is the first unused reference.                       *)
(***************************************************************************)
NoAttr == [key \in {Key("a")} |-> Null]

LocalKinds == {"plain", "strong", "comments", "nodemark", "image"}

\* the paragraphs the user inserts
LocalNode(kind, r) ==
  CASE kind = "plain" -> PElem(r, "p", NoAttr, {}, << PText(r + 1, <<"a">>, {}) >>)
    [] kind = "strong" -> PElem(r, "p", NoAttr, {}, << PText(r + 1, <<"a">>, {Mark("strong", 0)}) >>)
    [] kind = "comments" ->
         PElem(r, "p", NoAttr, {}, << PText(r + 1, <<"a">>, {Mark("comment", 1), Mark("comment", 2)}) >>)
    [] kind = "nodemark" -> PElem(r, "p", NoAttr, {Mark("strong", 0)}, <<>>)
    [] kind = "image" -> PElem(r, "p", NoAttr, {},
                               << PText(r + 1, <<"a">>, {}), PElem(r + 2, "img", NoAttr, {}, <<>>) >>)

TextKinds == {"em", "comments", "none"}

\* the text the user puts in the place of a paragraph's content
LocalText(kind, r) ==
  CASE kind = "em" -> << PText(r, <<"a">>, {Mark("em", 0)}) >>
    [] kind = "comments" -> << PText(r, <<"a">>, {Mark("comment", 1), Mark("comment", 2)}) >>
    [] kind = "none" -> <<>>

\* the documents one edit of the user makes of `d`
Edits(d, r) ==
  LET c == d.content
      first == c[1]
  IN { PElem(r, "doc", EmptyFn, {}, Append(c, LocalNode(kind, r + 1))) : kind \in LocalKinds }
     \cup (IF c = <<>> THEN {}
           ELSE { PElem(r, "doc", EmptyFn, {}, Tail(c)) }
                \cup (IF first.type # "p" THEN {}
                      ELSE { PElem(r, "doc", EmptyFn, {},
                                   << [first EXCEPT !.ref = r + 1, !.content = LocalText(kind, r + 2)] >> \o Tail(c)) :
                               kind \in TextKinds }
                           \cup { PElem(r, "doc", EmptyFn, {},
                                        << [first EXCEPT !.ref = r + 1, !.attrs = [key \in {Key("a")} |-> Prim(1)]] >>
                                          \o Tail(c)) }
                           \* attributes, text and children in one edit
                           \cup { PElem(r, "doc", EmptyFn, {},
                                        << [first EXCEPT !.ref = r + 1, !.attrs = [key \in {Key("a")} |-> Prim(3)],
                                                         !.content = LocalText("em", r + 2)
                                                                      \o << PElem(r + 3, "img", NoAttr, {}, <<>>) >>] >>
                                          \o Tail(c) \o << LocalNode("strong", r + 4) >>) }))

\* the user edits the document: view.dispatch(tr) of a transaction without
\* meta for the plugin
LocalEdit ==
  /\ steps < MaxSteps
  /\ prosemirrorView
  /\ editable(pluginState)
  /\ \E d \in Edits(doc, pn) :
       /\ d.content # doc.content
       /\ Commit(dispatch([World EXCEPT !.pn = @ + 6],
                          [doc |-> d, meta |-> NoMeta, hist |-> TRUE, by |-> "user"]))

(***************************************************************************)
(* The changes of the other peers, applied as one transaction.             *)
(***************************************************************************)
RemoteKinds == {"text", "emptied", "bogus", "unknown", "nested", "nodemark", "toptext"}

\* a type of another peer, not integrated yet; its id is Len(w.ys) + 1
RemoteNode(w, kind) ==
  LET id == Len(w.ys) + 1
      Run(chars) == YNode("text", "", EmptyFn, <<>>, chars, FALSE)
      Text(fmt) == Run(<< Char("a", fmt) >>)
      With(text) ==
        insertChildren(Alloc(Alloc(w, YNode("el", "p", EmptyFn, <<>>, <<>>, FALSE)), text), id, 0, << id + 1 >>)
  IN CASE kind = "text" -> With(Text({}))
       \* a paragraph whose text the other peer deleted
       [] kind = "emptied" -> With(Run(<<>>))
       [] kind = "bogus" -> With(Text({Fmt("bogus", 0, 0)}))
       [] kind = "unknown" -> Alloc(w, YNode("el", "x", EmptyFn, <<>>, <<>>, FALSE))
       \* a paragraph in a paragraph: the schema has no such content
       [] kind = "nested" -> With(YNode("el", "p", EmptyFn, <<>>, <<>>, FALSE))
       [] kind = "nodemark" ->
            Alloc(w, YNode("el", "p", [key \in {MarkKey("strong")} |-> MarkJSON(0)], <<>>, <<>>, FALSE))
       [] kind = "toptext" -> Alloc(w, Text({}))

\* the first text run of the first child of the fragment, 0 if none
FirstText(w) ==
  LET top == toArray(w.ys, Root)
      kids == IF top = <<>> THEN <<>> ELSE toArray(w.ys, top[1])
  IN IF kids # <<>> /\ w.ys[kids[1]].kind = "text" THEN kids[1] ELSE 0

RemoteOps == { [op |-> "insert", kind |-> kind] : kind \in RemoteKinds }
               \cup { [op |-> o, kind |-> ""] : o \in {"delete", "attr", "type"} }

RemoteEnabled(w, o) ==
  CASE o.op = "insert" -> TRUE
    [] o.op = "delete" -> toArray(w.ys, Root) # <<>>
    [] o.op = "attr" -> toArray(w.ys, Root) # <<>> /\ w.ys[toArray(w.ys, Root)[1]].kind = "el"
    [] o.op = "type" -> FirstText(w) # 0

\* Y.applyUpdate(doc, update, origin): the changes of one update
ApplyRemote(w, o) ==
  LET top == toArray(w.ys, Root)
      w1 == Begin(w, RemoteOrigin)
      w2 == CASE o.op = "insert" -> InsertIn(RemoteNode(w1, o.kind), Root, Len(top), << Len(w1.ys) + 1 >>)
              [] o.op = "delete" -> DeleteItem(w1, top[1])
              [] o.op = "attr" -> SetAttributeIn(w1, top[1], Key("a"), Prim(2))
              [] o.op = "type" -> TextInsertIn(w1, FirstText(w1), Len(w1.ys[FirstText(w1)].chars), <<"r">>)
  IN End(w2)

RemoteBatch ==
  /\ steps < MaxSteps
  /\ \E o \in RemoteOps :
       /\ RemoteEnabled(World, o)
       /\ Commit(ApplyRemote(World, o))

(***************************************************************************)
(* The view, the snapshots and the queued callbacks.                       *)
(***************************************************************************)
\* the plugin's view(view), for the first view and for another view of the
\* same state: initView, and _forceRerender as the plugin was given no
\* mapping
CreateView ==
  /\ steps < MaxSteps
  /\ Commit(forceRerender(initView(World)))

\* the destroy() of a plugin view, also of one that is not attached any more
DestroyView ==
  /\ steps < MaxSteps
  /\ Commit(destroy(World))

\* binding.renderSnapshot(snapshot, prevSnapshot) called by the application;
\* without a snapshot the render takes Y.snapshot(doc) when it runs
RenderSnapshot ==
  /\ steps < MaxSteps
  /\ prosemirrorView
  /\ \E snapshot \in {NoSnap, Snap}, prev \in {NoSnap, Snap} : Commit(renderSnapshot(World, snapshot, prev))

\* the application restores a snapshot:
\* view.dispatch(tr.setMeta(ySyncPluginKey, {snapshot, prevSnapshot, restore: true}))
RestoreSnapshot ==
  /\ steps < MaxSteps
  /\ prosemirrorView
  /\ Commit(dispatch(World, [doc |-> doc, hist |-> TRUE, by |-> "snapshot", meta |-> RestoreMeta(Snap)]))

\* binding.unrenderSnapshot() called by the application
UnrenderSnapshot ==
  /\ steps < MaxSteps
  /\ prosemirrorView
  /\ Commit(unrenderSnapshot(World))

\* the event loop runs the oldest queued callback
RunTask ==
  /\ steps < MaxSteps
  /\ tasks # <<>>
  /\ Commit(runTask([World EXCEPT !.tasks = Tail(@)], Head(tasks)))

Next ==
  \/ LocalEdit
  \/ RemoteBatch
  \/ CreateView
  \/ DestroyView
  \/ RenderSnapshot
  \/ RestoreSnapshot
  \/ UnrenderSnapshot
  \/ RunTask

Spec == Init /\ [][Next]_vars

\* no handler of the binding recurses without end, and every method of a
\* shared type it calls runs inside a transaction that is already open
NoHang == lastErr \notin {"hang", "RangeError", "outermost"}

(***************************************************************************)
(* The conversions on their own: a paragraph `n0` is built into a shared   *)
(* element under the fragment, and a paragraph `n` is reconciled with that *)
(* element, with the mapping table of the build or with an empty one.  A   *)
(* node that `n0` and `n` share is the same object in both.                *)
(***************************************************************************)
\* the text nodes and the images paragraphs are made of
Piece(k) ==
  CASE k = "plain" -> PText(11, <<"a">>, {})
    [] k = "strong" -> PText(12, <<"a">>, {Mark("strong", 0)})
    [] k = "em" -> PText(13, <<"a">>, {Mark("em", 0)})
    [] k = "long" -> PText(14, <<"a", "b">>, {})
    [] k = "comments" -> PText(15, <<"a">>, {Mark("comment", 1), Mark("comment", 2)})
    [] k = "both" -> PText(16, <<"b">>, {Mark("strong", 0), Mark("em", 0)})
    [] k = "comment1" -> PText(17, <<"a">>, {Mark("comment", 1)})
    [] k = "comment2" -> PText(18, <<"b">>, {Mark("comment", 2)})
    [] k = "img" -> PElem(21, "img", NoAttr, {}, <<>>)
    [] k = "img1" -> PElem(22, "img", [key \in {Key("a")} |-> Prim(1)], {}, <<>>)
    [] k = "img2" -> PElem(23, "img", [key \in {Key("a")} |-> Prim(2)], {}, <<>>)

PureContents ==
  { <<>>, <<"plain">>, <<"strong">>, <<"em">>, <<"long">>, <<"comments">>, <<"both">>, <<"plain", "both">>,
    <<"img">>, <<"plain", "img">>, <<"strong", "img">>, <<"em", "img">>, <<"img", "img1">>, <<"img", "img2", "img1">>,
    <<"comments", "img">>, <<"comments", "img1", "img">>, <<"comment1", "comment2">> }

\* the attributes and the marks of the paragraphs
PlainShape == [attrs |-> NoAttr, marks |-> {}]

PureShapes ==
  { [attrs |-> NoAttr, marks |-> {}],
    [attrs |-> [key \in {Key("a")} |-> Prim(1)], marks |-> {}],
    [attrs |-> [key \in {Key("a")} |-> Obj(1, 1)], marks |-> {}],
    [attrs |-> NoAttr, marks |-> {Mark("strong", 0)}],
    [attrs |-> NoAttr, marks |-> {Mark("comment", 1), Mark("comment", 2)}] }

Paragraph(ref, shape, content) ==
  PElem(ref, "p", shape.attrs, shape.marks, [i \in 1..Len(content) |-> Piece(content[i])])

PureInputs ==
  { pair \in
    { [n0 |-> Paragraph(1, s0, c0), n |-> Paragraph(2, s1, c1), keep |-> keep] :
      s0 \in PureShapes, c0 \in PureContents, s1 \in PureShapes, c1 \in PureContents, keep \in BOOLEAN } :
    \/ (pair.n0.attrs = pair.n.attrs /\ pair.n0.marks = pair.n.marks)
    \/ (pair.n0.attrs = PlainShape.attrs /\ pair.n0.marks = PlainShape.marks)
    \/ (pair.n.attrs = PlainShape.attrs /\ pair.n.marks = PlainShape.marks) }
  \* an element and a node of another type
  \cup { [n0 |-> Paragraph(1, PlainShape, c0), n |-> Piece(k), keep |-> keep] :
          c0 \in {<<>>, <<"plain">>, <<"plain", "img">>}, k \in {"img", "img1"}, keep \in BOOLEAN }
  \cup { [n0 |-> Piece(k), n |-> Paragraph(2, PlainShape, c1), keep |-> keep] :
          k \in {"img", "img1"}, c1 \in {<<>>, <<"plain">>}, keep \in BOOLEAN }

\* a binding without a view on an empty fragment
BlankWorld ==
  [ys |-> << EmptyFragment >>, map |-> EmptyFn, smap |-> EmptyFn, log |-> <<>>, tx |-> 0, txid |-> 1,
   txorg |-> NoOrigin, txn |-> 1, txch |-> {}, txdel |-> {}, tq |-> <<>>, inloop |-> FALSE, cl |-> 0,
   err |-> "none", pn |-> 30, obs |-> NoListeners, view |-> FALSE, doc |-> DefaultDoc, ps |-> InitPluginState,
   psid |-> 0, icc |-> FALSE, bts |-> 0, sig |-> <<>>, tasks |-> <<>>, mux |-> FALSE, fwd |-> FALSE, depth |-> 0,
   ev |-> <<>>]

\* the shared element of the conversions: the first type made
Elem == 2

\* fragment.insert(0, [createTypeFromTextOrElementNode(node, meta)]) in one
\* transaction
Build(w, node) ==
  LET Insert(w1) == End(insertChildren(w1, Root, Len(toArray(w1.ys, Root)), << Len(w.ys) + 1 >>))
  IN Insert(createTypeFromElementNode(Begin(w, ySyncPluginKey), node))

InitPure ==
  /\ input \in PureInputs
  /\ LET Built(built) ==
           /\ ys = Tuple([i \in 1..Len(built.ys) |-> [built.ys[i] EXCEPT !.born = IF @ > 0 THEN 1 ELSE 0]])
           /\ mapping = IF input.keep THEN built.map ELSE EmptyFn
     IN Built(Build(BlankWorld, input.n0))
  /\ prosemirrorView = FALSE
  /\ listeners = NoListeners
  /\ beforeTransactionSelection = 0
  /\ signals = <<>>
  /\ differed = FALSE
  /\ doc = DefaultDoc
  /\ pluginState = InitPluginState
  /\ psid = 0
  /\ initialContentChanged = FALSE
  /\ tasks = <<>>
  /\ pn = 30
  /\ ev = <<>>
  /\ log = <<>>
  /\ lastErr = "none"
  /\ steps = 0

\* what the last conversion was
Did(e) == ev # <<>> /\ ev[Len(ev)].e = e

\* updateYFragment(doc, Elem, n, binding) in a transaction of the binding
Reconciled(w, n) == End(updateYFragment(Begin(w, ySyncPluginKey), Elem, n))

\* the element is reconciled with `n`
Reconcile ==
  /\ steps = 0
  /\ Commit(Note(Reconciled(World, input.n), "reconcile", "", 0, 0))

\* the element is reconciled with `n` once more
ReconcileAgain ==
  /\ steps = 1
  /\ Did("reconcile")
  /\ Commit(Note(Reconciled(World, input.n), "again", "", 0, 0))

\* computeChildEqualityFactor(Elem, n, binding)
Align ==
  /\ steps = 0
  /\ LET Factor(f) ==
           Commit(Note(World, "align", IF f.foundMappedChild THEN "mapped" ELSE "", f.equalityFactor, 0))
     IN Factor(computeChildEqualityFactor(World, Elem, input.n))

\* `n` is built into a new shared element, and an editable node is built
\* from that one: the document holds the result
RoundTrip ==
  /\ steps = 0
  /\ LET id == Len(ys) + 1
         Back(r) == Commit(Note([r.w EXCEPT !.doc = PElem(0, "doc", EmptyFn, {}, r.n)], "roundtrip", "", id, 0))
     IN Back(createNodeFromYElement(Build([World EXCEPT !.map = EmptyFn], input.n), id, "map"))

NextPure ==
  \/ Reconcile
  \/ ReconcileAgain
  \/ Align
  \/ RoundTrip

SpecPure == InitPure /\ [][NextPure]_vars

(***************************************************************************)
(* The events of the handler that ran last.                                *)
(***************************************************************************)
Events(e) == { i \in 1..Len(ev) : ev[i].e = e }

\* the transactions the binding dispatches itself
OwnDispatches == {"reverse", "rerender", "render", "unrender", "snapshot"}

\* C1: the observer called for the transaction of a forward synchronization
\* that a view update started removes no entry of the mapping table and
\* dispatches no transaction
C1_ObserverIsNoOpDuringForwardSync ==
  \A i \in Events("observer") : ev[i].by = "forward" => ev[i].a = 0 /\ ev[i].b = 0

\* a forward synchronization changed the fragment and its observer was called
C1_Witness ==
  /\ \E i \in Events("observer") : ev[i].by = "forward"
  /\ \E j \in 1..Len(log) : log[j].fwd
  /\ mapping # EmptyFn

\* C2: the view update that a transaction dispatched by the binding itself
\* triggers runs no forward synchronization and changes nothing in the
\* shared tree
C2_OwnDispatchIsNoLocalEdit ==
  \A i \in Events("update") : ev[i].by \in OwnDispatches => ev[i].a = 0 /\ ev[i].b = 0

\* a reverse synchronization dispatched a document that differs from the
\* default one, and the view was updated with it
C2_Witness ==
  /\ \E i \in Events("update") : ev[i].by = "reverse"
  /\ Differs(doc.content, DefaultContent)
  /\ pluginState.snapshot = NoSnap

\* C3: the mutations of one forward synchronization are all in one
\* transaction, and that one has the origin of the binding
C3_ForwardSyncIsOneTransaction ==
  \A i, j \in 1..Len(log) :
    log[i].fwd /\ log[j].fwd => log[i].tx = log[j].tx /\ log[i].org = ySyncPluginKey

\* one forward synchronization set an attribute, changed a text run and
\* inserted a child on each of two levels of the tree
C3_Witness ==
  \E i, j, k, l \in 1..Len(log) :
    /\ log[i].fwd /\ log[j].fwd /\ log[k].fwd /\ log[l].fwd
    /\ log[i].op = "setAttribute"
    /\ log[j].op \in {"textFormat", "textInsert", "textDelete"}
    /\ log[k].op = "insert" /\ ys[log[k].id].parent = Root
    /\ log[l].op = "insert" /\ ys[log[l].id].parent # Root

LiveChildrenEqual(type, n) ==
  LET yChildren == toArray(ys, type)
      pChildren == normalizePNodeContent(n)
  IN /\ Len(yChildren) = Len(pChildren)
     /\ \A i \in 1..Len(yChildren) : equalYTypePNode(ys, yChildren[i], pChildren[i])

\* the handler that ran last ended with a reverse synchronization that
\* dispatched its transaction
ReverseSynced ==
  /\ Did("observer") /\ ev[Len(ev)].by = "free" /\ ev[Len(ev)].b = 1
  /\ lastErr = "none"

\* C6 as stated: after a reverse synchronization the content of the document
\* is, child by child and in order, equal (equalYTypePNode) to the live
\* children of the fragment
C6_DocumentEqualsFragment == ReverseSynced => LiveChildrenEqual(Root, doc)

\* a reverse synchronization rendered the change of another peer to a
\* paragraph whose text run has two comment attributes: the paragraph of the
\* document is the one the mapping table held, with both marks on its text
C6_Witness ==
  /\ ReverseSynced
  /\ \E k \in 1..Len(log) : log[k].org = RemoteOrigin
  /\ Len(doc.content) = Len(toArray(ys, Root))
  /\ \E i \in 1..Len(doc.content) :
       /\ doc.content[i].content # <<>>
       /\ doc.content[i].content[1].marks = {Mark("comment", 1), Mark("comment", 2)}
       /\ toArray(ys, Root)[i] \in DOMAIN mapping
       /\ ~equalYTypePNode(ys, toArray(ys, Root)[i], ElSlot(doc.content[i]))

(***************************************************************************)
(* The conversions.                                                        *)
(***************************************************************************)
\* the live children of the element are, one to one and in order, equal
\* (equalYTypePNode) to the normalized children of `n`
ChildrenEqual(n) == LiveChildrenEqual(Elem, n)

\* the attributes of the element are the non-null attributes of `n` and the
\* marks of `n` as nodeMarksToAttributes projects them
AttributesEqual(n) ==
  LET proj == nodeMarksToAttributes(n.marks)
      own == { key \in DOMAIN n.attrs : n.attrs[key] # Null }
      yattrs == ys[Elem].attrs
  IN /\ DOMAIN yattrs = own \cup DOMAIN proj
     /\ \A key \in own : equalityDeep(yattrs[key], n.attrs[key])
     /\ \A key \in DOMAIN proj : equalityDeep(yattrs[key], proj[key])

\* the element had one child, a text run, and `n` has no children
OnlyTextRemoved == Len(normalizePNodeContent(input.n0)) = 1 /\ input.n0.content[1].type = "text"
                     /\ input.n.content = <<>>

\* C5 as stated: after updateYFragment returned, the children of the element
\* are equal to the normalized children of the node and its attributes are
\* those of the node, unless the element had one text run as its only child
\* and the node has no children
C5_ReconcileMakesEqual ==
  (Did("reconcile") /\ lastErr = "none" /\ ~OnlyTextRemoved) =>
    ChildrenEqual(input.n) /\ AttributesEqual(input.n)

\* the same for the nodes that hold no text with two marks of the type that
\* does not exclude itself: there the two sides are equal
C5_EqualWithoutOverlap ==
  (/\ Did("reconcile") /\ lastErr = "none" /\ ~OnlyTextRemoved
   /\ \A i \in 1..Len(input.n.content) : input.n.content[i] # Piece("comments")) =>
    ChildrenEqual(input.n) /\ AttributesEqual(input.n)

\* an empty paragraph was reconciled with a paragraph of one text node that
\* has two comment marks: the run has both marks and is not equal to the node
C5_Witness ==
  /\ Did("reconcile") /\ lastErr = "none"
  /\ input.n0.content = <<>> /\ input.n.content = << Piece("comments") >>
  /\ \E k \in 1..Len(log) : log[k].op = "insert"
  /\ AttributesEqual(input.n)
  /\ ~ChildrenEqual(input.n)

\* two marks of the type that does not exclude itself
Overlapping == {Mark("comment", 1), Mark("comment", 2)}

\* C7 as stated: the node built from the shared element that was made of `n`
\* is equal to `n` (Node.eq: type, attributes, marks and content)
C7_RoundTripYieldsEqualNode ==
  Did("roundtrip") => (doc.content # <<>> /\ Strip(doc.content[1]) = Strip(input.n))

\* the same for the paragraphs that do not have two marks of one type
\* themselves: they come back equal
C7_EqualWithoutNodeOverlap ==
  (Did("roundtrip") /\ input.n.marks # Overlapping) =>
    (doc.content # <<>> /\ Strip(doc.content[1]) = Strip(input.n))

\* a paragraph with two comment marks went round: the shared element has one
\* attribute for both and the node that came back has one of the marks
C7_Witness ==
  /\ Did("roundtrip") /\ lastErr = "none"
  /\ input.n.marks = Overlapping
  /\ DOMAIN ys[ev[Len(ev)].a].attrs = {MarkKey("comment")}
  /\ doc.content # <<>>
  /\ doc.content[1].marks = {Mark("comment", 2)}
  /\ StripSeq(doc.content[1].content) = StripSeq(input.n.content)

\* C8 as stated: the second reconciliation with the same node changes
\* nothing in the shared tree
C8_SecondPassChangesNothing == (Did("again") /\ lastErr = "none") => log = <<>>

\* the same for the paragraphs without marks of their own
C8_NothingWithoutNodeMarks == (Did("again") /\ lastErr = "none" /\ input.n.marks = {}) => log = <<>>

\* a paragraph with a mark was reconciled twice with the element made of it:
\* the second pass set the attribute of the mark again
C8_Witness ==
  /\ Did("again") /\ lastErr = "none"
  /\ input.n0 = [input.n EXCEPT !.ref = input.n0.ref]
  /\ input.n.marks = {Mark("strong", 0)}
  /\ Len(log) = 1 /\ log[1].op = "setAttribute" /\ log[1].id = Elem
  /\ ChildrenEqual(input.n) /\ AttributesEqual(input.n)

\* `n` is `n0` with other marks on text node i, and nothing else changed
FormatEditAt(i) ==
  /\ input.n0.attrs = input.n.attrs /\ input.n0.marks = input.n.marks
  /\ Len(input.n0.content) = Len(input.n.content)
  /\ i \in 1..Len(input.n.content)
  /\ isText(input.n0.content[i]) /\ isText(input.n.content[i])
  /\ input.n0.content[i].text = input.n.content[i].text
  /\ input.n0.content[i].marks # input.n.content[i].marks
  /\ \A j \in 1..Len(input.n.content) : j # i => input.n0.content[j] = input.n.content[j]

FormatEdit == \E i \in 1..Len(input.n.content) : FormatEditAt(i)

\* the text run of the element: its first child, as the paragraphs here have
\* their text in front
EditedRun == Elem + 1

\* what toDelta gives for the run made of text nodes
DeltaOf(nodes) ==
  deltaFrom(DeltaChars(Tuple([i \in 1..Len(nodes) |->
                                [insert |-> nodes[i].text, attributes |-> marksToAttributes(nodes[i].marks)]])), 1)

\* only the run was changed, by formatting, and it has the formatting of `n`
OnlyRunFormatted ==
  /\ \A k \in 1..Len(log) : log[k].id = EditedRun /\ log[k].op = "textFormat"
  /\ Len(ys) = Elem + Len(normalizePNodeContent(input.n0))
  /\ \A id \in 1..Len(ys) : ~ys[id].del
  /\ toDelta(ys, EditedRun) = DeltaOf(normalizePNodeContent(input.n)[1].a)

\* C9 as stated: the reconciliation with a node that differs from the
\* synchronized one in the marks of one text node only formats the text run
\* in place: no other shared node is changed, deleted or made
C9_FormatEditKeepsIdentity == (Did("reconcile") /\ lastErr = "none" /\ FormatEdit) => OnlyRunFormatted

\* the same for the paragraphs without marks of their own, when the edit
\* changes how many marks the text node has
C9_KeptWhereDetected ==
  (/\ Did("reconcile") /\ lastErr = "none"
   /\ input.n.marks = {}
   /\ \E i \in 1..Len(input.n.content) :
        FormatEditAt(i) /\ Cardinality(input.n0.content[i].marks) # Cardinality(input.n.content[i].marks))
    => OnlyRunFormatted

\* the strong text of a paragraph was made emphasized, next to an image: the
\* reconciliation changed nothing and the run is strong as before
C9_Witness ==
  /\ Did("reconcile") /\ lastErr = "none" /\ input.keep
  /\ input.n0.content = << Piece("strong"), Piece("img") >>
  /\ input.n.content = << Piece("em"), Piece("img") >>
  /\ FormatEdit
  /\ log = <<>>
  /\ toDelta(ys, EditedRun) = DeltaOf(<< Piece("strong") >>)
  /\ mapping[EditedRun] = ArrSlot(<< Piece("em") >>)

\* the normalized children of `n` are those of `n0` with one more child
\* between two of them
InsertedInMiddle ==
  LET y == normalizePNodeContent(input.n0)
      p == normalizePNodeContent(input.n)
  IN /\ Len(p) = Len(y) + 1
     /\ \E k \in 2..Len(y) :
          /\ SubSeq(p, 1, k - 1) = SubSeq(y, 1, k - 1)
          /\ SubSeq(p, k + 1, Len(p)) = SubSeq(y, k, Len(y))

\* min(Y, P) of the element and `n`
MinCnt == Min(Len(normalizePNodeContent(input.n0)), Len(normalizePNodeContent(input.n)))

Logs(op) == { k \in 1..Len(log) : log[k].op = op }

\* the alignment reports min(Y, P) for a child inserted in the middle
AlignedButOne == (Did("align") /\ InsertedInMiddle) => ev[Len(ev)].a = MinCnt

\* the alignment never reports more than min(Y, P)
AlignedAtMost == Did("align") => ev[Len(ev)].a <= MinCnt

\* the reconciliation inserts one child and deletes none
InsertsOne ==
  (Did("reconcile") /\ lastErr = "none" /\ InsertedInMiddle) =>
    /\ Cardinality(Logs("insert")) = 1
    /\ \A k \in Logs("insert") : ys[log[k].id].parent = Elem
    /\ Logs("delete") = {}

\* C10 as stated: with one child inserted in the middle, left + right is
\* min(Y, P) and the reconciliation inserts one child and deletes none; in
\* every case left + right is at most min(Y, P)
C10_AlignmentIsMinimal == AlignedButOne /\ AlignedAtMost /\ InsertsOne

\* the same where no text node has two marks of the type that does not
\* exclude itself, or the mapping table holds the children
C10_MinimalWithoutOverlap ==
  /\ (input.keep \/ \A i \in 1..Len(input.n.content) : input.n.content[i] # Piece("comments")) => AlignedButOne
  /\ AlignedAtMost
  /\ InsertsOne

\* an image was inserted between a text with two comment marks and an image,
\* with an empty mapping table: the alignment reports 1 where min(Y, P) is 2
C10_Witness ==
  /\ Did("align") /\ ~input.keep
  /\ input.n0.content = << Piece("comments"), Piece("img") >>
  /\ input.n.content = << Piece("comments"), Piece("img1"), Piece("img") >>
  /\ InsertedInMiddle
  /\ MinCnt = 2
  /\ ev[Len(ev)].a = 1

(***************************************************************************)
(* The failed constructions of the reverse direction.                      *)
(***************************************************************************)
\* the live children of `type` of the given kind, in order
KidsOfKind(type, kind) ==
  LET kids == toArray(ys, type)
  IN SeqFilterIdx(kids, [i \in 1..Len(kids) |-> ys[kids[i]].kind = kind], 1)

RECURSIVE Reflects(_, _)
\* the element nodes of `content` are, one to one and in order, nodes of the
\* live element children of `type`, and the text of `content` is the text of
\* the live text runs of `type`
Reflects(type, content) ==
  LET els == KidsOfKind(type, "el")
      runs == KidsOfKind(type, "text")
      nodes == SeqFilterIdx(content, [i \in 1..Len(content) |-> ~isText(content[i])], 1)
      texts == SeqFilterIdx(content, [i \in 1..Len(content) |-> isText(content[i])], 1)
  IN /\ Len(els) = Len(nodes)
     /\ \A i \in 1..Len(els) : nodes[i].type = ys[els[i]].name /\ Reflects(els[i], nodes[i].content)
     /\ JoinText(texts) = Concat([i \in 1..Len(runs) |-> [j \in 1..Len(ys[runs[i]].chars) |-> ys[runs[i]].chars[j].c]])

\* the deletions logged for the type
DeletionsOf(type) == { k \in 1..Len(log) : log[k].op = "delete" /\ log[k].id = type }

\* the type whose construction failed is deleted, by a transaction of the
\* binding, and the live mapping table does not hold it
HealedAway(i) ==
  /\ ys[ev[i].a].del
  /\ DeletionsOf(ev[i].a) # {}
  /\ \A k \in DeletionsOf(ev[i].a) : log[k].org = ySyncPluginKey
  /\ ev[i].a \notin DOMAIN mapping

\* the deletion of the type is the only change of its transaction, which
\* the catch block opened
HealedAlone(i) ==
  /\ ev[i].b = 0
  /\ \A k \in DeletionsOf(ev[i].a) : \A j \in 1..Len(log) : log[j].tx = log[k].tx => j = k

\* the handler returned normally and the document shows the live fragment
HealedQuietly ==
  /\ lastErr = "none"
  /\ (prosemirrorView /\ editable(pluginState)) => Reflects(Root, doc.content)

\* every top-level child of the fragment is an element: no child is of a
\* kind createNodeIfNotExists and createNodeFromYElement throw for
TopLevelElements == \A i \in 1..Len(ys[Root].kids) : ys[ys[Root].kids[i]].kind = "el"

\* the part of C11 that does not depend on the transaction
HealedAll ==
  /\ \A i \in Events("healed") : HealedAway(i)
  /\ (Events("healed") # {} /\ TopLevelElements) => HealedQuietly

AdjacentOverlapAt(n, i) ==
  /\ i + 1 \in 1..Len(n.content)
  /\ isText(n.content[i]) /\ isText(n.content[i + 1])
  /\ \E a, b \in 1..2 :
       /\ a # b
       /\ n.content[i].marks = {Mark("comment", a)}
       /\ n.content[i + 1].marks = {Mark("comment", b)}

\* C12: the paragraph built from the shared element made of a paragraph with
\* two adjacent text nodes that carry marks of an overlapping type with
\* different attributes has the two text nodes, each with its text and its
\* own mark
C12_AdjacentOverlappingMarksSurvive ==
  \A i \in 1..Len(input.n.content) :
    (Did("roundtrip") /\ AdjacentOverlapAt(input.n, i)) =>
      /\ lastErr = "none" /\ doc.content # <<>>
      /\ AdjacentOverlapAt(doc.content[1], i)
      /\ \A j \in {i, i + 1} :
           /\ doc.content[1].content[j].text = input.n.content[j].text
           /\ doc.content[1].content[j].marks = input.n.content[j].marks

\* comment {id: 1} on "a" and comment {id: 2} on "b" went round: the shared
\* run has one attribute per mark, each with its hash in the key
C12_Witness ==
  /\ Did("roundtrip") /\ lastErr = "none"
  /\ AdjacentOverlapAt(input.n, 1)
  /\ toDelta(ys, ev[Len(ev)].a + 1) =
       << [insert |-> <<"a">>, attributes |-> {Fmt("comment", hashOfJSON(Mark("comment", 1)), 1)}],
          [insert |-> <<"b">>, attributes |-> {Fmt("comment", hashOfJSON(Mark("comment", 2)), 2)}] >>
  /\ Len(doc.content[1].content) = 2
  /\ doc.content[1].content[1].marks # doc.content[1].content[2].marks

(***************************************************************************)
(* Snapshots.  A history is the shared document kept without garbage       *)
(* collection: every item stays in its list, with the time it was made, the*)
(* user who made it, and the time it was deleted and by whom (0: live).    *)
(* A snapshot is named by the time it was taken: its state vector holds    *)
(* the items made until then, its delete set the items deleted until then. *)
(* The characters of a text run are items of their own.  The schema        *)
(* declares the attribute and the mark "ychange", and the plugin state     *)
(* holds the permanent user data that names the user of an item.           *)
(***************************************************************************)
\* the history operations before the state space is cut
MaxHistory == 4

HItem(kind, name, kids, chars, made, user, parent) ==
  [kind |-> kind, name |-> name, kids |-> kids, chars |-> chars, made |-> made, gone |-> 0,
   user |-> user, goneBy |-> "", parent |-> parent]

HChar(c, made, user) == [c |-> c, made |-> made, gone |-> 0, user |-> user, goneBy |-> ""]

\* Y.isVisible(item, snapshot)
isVisible(item, snapshot) == item.made <= snapshot /\ ~(item.gone # 0 /\ item.gone <= snapshot)

\* Y.typeListToArraySnapshot(type, new Y.Snapshot(prevSnapshot.ds, snapshot.sv))
typeListToArraySnapshot(hs, type, snapshot, prevSnapshot) ==
  LET ks == hs[type].kids
  IN SeqFilterIdx(ks, [i \in 1..Len(ks) |->
       hs[ks[i]].made <= snapshot /\ ~(hs[ks[i]].gone # 0 /\ hs[ks[i]].gone <= prevSnapshot)], 1)

\* computeYChange(type, id) of _renderSnapshot, without the colour
computeYChange(type, item) ==
  [k |-> "ychange", r |-> 0,
   v |-> [type |-> type, user |-> IF type = "added" THEN item.user ELSE item.goneBy]]

\* the ychange of an item: "removed" when the snapshot does not show it,
\* "added" when only the previous snapshot does not, else none
YChange(item, snapshot, prevSnapshot) ==
  IF ~isVisible(item, snapshot) THEN computeYChange("removed", item)
  ELSE IF ~isVisible(item, prevSnapshot) THEN computeYChange("added", item)
  ELSE Null

RECURSIVE toDeltaSnapshot(_, _, _, _)
\* text.toDelta(snapshot, prevSnapshot, computeYChange) and schema.text of
\* each run: the items one of the snapshots shows, from the i-th on
toDeltaSnapshot(chars, i, snapshot, prevSnapshot) ==
  IF i > Len(chars) THEN <<>>
  ELSE (IF isVisible(chars[i], snapshot) \/ isVisible(chars[i], prevSnapshot)
        THEN LET yc == YChange(chars[i], snapshot, prevSnapshot)
             IN << PText(0, <<chars[i].c>>, IF yc = Null THEN {} ELSE {Mark("ychange", yc.v)}) >>
        ELSE <<>>) \o toDeltaSnapshot(chars, i + 1, snapshot, prevSnapshot)

RECURSIVE createChildrenAt(_, _, _, _, _)
RECURSIVE createNodeFromYElementAt(_, _, _, _)
\* createNodeFromYElement(el, schema, meta, snapshot, prevSnapshot,
\* computeYChange) with both snapshots given: the node, or none and the
\* element to delete.  [n, healed]
createNodeFromYElementAt(hs, el, snapshot, prevSnapshot) ==
  LET built == createChildrenAt(hs, typeListToArraySnapshot(hs, el, snapshot, prevSnapshot), 1,
                                snapshot, prevSnapshot)
      children == JoinAdjacent(built.n, 0).c
      attrs == [key \in {Key("a"), Key("ychange")} |->
                  IF key = Key("a") THEN Null ELSE YChange(hs[el], snapshot, prevSnapshot)]
  IN IF hs[el].name \in NodeTypes /\ ContentOk(hs[el].name, children)
     THEN [n |-> << PElem(el, hs[el].name, attrs, {}, children) >>, healed |-> built.healed]
     ELSE [n |-> <<>>, healed |-> built.healed \cup {el}]

\* createChildren of createNodeFromYElement for the types from the i-th on
createChildrenAt(hs, types, i, snapshot, prevSnapshot) ==
  IF i > Len(types) THEN [n |-> <<>>, healed |-> {}]
  ELSE LET first == IF hs[types[i]].kind = "el"
                    THEN createNodeFromYElementAt(hs, types[i], snapshot, prevSnapshot)
                    ELSE [n |-> toDeltaSnapshot(hs[types[i]].chars, 1, snapshot, prevSnapshot), healed |-> {}]
           rest == createChildrenAt(hs, types, i + 1, snapshot, prevSnapshot)
       IN [n |-> first.n \o rest.n, healed |-> first.healed \cup rest.healed]

\* the fragmentContent of _renderSnapshot: the elements of the fragment that
\* are live or that one of the snapshots shows
fragmentContentAt(hs, snapshot, prevSnapshot) ==
  LET ts == typeListToArraySnapshot(hs, Root, snapshot, prevSnapshot)
  IN createChildrenAt(hs,
       SeqFilterIdx(ts, [i \in 1..Len(ts) |->
         \/ hs[ts[i]].gone = 0
         \/ isVisible(hs[ts[i]], snapshot)
         \/ isVisible(hs[ts[i]], prevSnapshot)], 1),
       1, snapshot, prevSnapshot)

\* item.delete(transaction) of each of `ids` at time t by `user`: the items
\* and the characters that are live are deleted
DeletedAt(hs, ids, t, user) ==
  Tuple([i \in 1..Len(hs) |->
    IF i \in ids
    THEN [hs[i] EXCEPT !.gone = IF @ = 0 THEN t ELSE @,
                       !.goneBy = IF hs[i].gone = 0 THEN user ELSE @,
                       !.chars = Tuple([j \in 1..Len(hs[i].chars) |->
                                   IF hs[i].chars[j].gone = 0
                                   THEN [hs[i].chars[j] EXCEPT !.gone = t, !.goneBy = user]
                                   ELSE hs[i].chars[j]])]
    ELSE hs[i]])

\* the live children of a type of the history
LiveKids(hs, id) ==
  LET ks == hs[id].kids
  IN SeqFilterIdx(ks, [i \in 1..Len(ks) |-> hs[ks[i]].gone = 0], 1)

\* the live children of a type that are elements named `name`
LiveNamed(hs, id, name) ==
  LET ks == LiveKids(hs, id)
  IN SeqFilterIdx(ks, [i \in 1..Len(ks) |-> hs[ks[i]].name = name], 1)

\* the paragraph "x" of user B at time 1
InitHistory ==
  << HItem("frag", "", <<2>>, <<>>, 0, "", 0),
     HItem("el", "p", <<3>>, <<>>, 1, "B", 1),
     HItem("text", "", <<>>, << HChar("x", 1, "B") >>, 1, "B", 2) >>

InitSnapshot ==
  /\ ys = InitHistory
  /\ input = [now |-> 1, snaps |-> <<>>]
  /\ mapping = EmptyFn
  /\ prosemirrorView = TRUE
  /\ listeners = ListenersOnce
  /\ beforeTransactionSelection = 0
  /\ signals = <<>>
  /\ differed = FALSE
  /\ doc = DefaultDoc
  /\ pluginState = [InitPluginState EXCEPT !.snapshot = Snap, !.prevSnapshot = Snap]
  /\ psid = 0
  /\ initialContentChanged = FALSE
  /\ tasks = <<>>
  /\ pn = 0
  /\ ev = <<>>
  /\ log = <<>>
  /\ lastErr = "none"
  /\ steps = 0

\* the history moves on to `hs`
Moved(hs, e, user) ==
  /\ steps < MaxHistory
  /\ ys' = hs
  /\ input' = [input EXCEPT !.now = @ + 1]
  /\ ev' = << Ev(e, user, input.now + 1, 0, <<>>) >>
  /\ steps' = steps + 1
  /\ UNCHANGED << mapping, prosemirrorView, listeners, beforeTransactionSelection, signals, differed, doc, pluginState, psid, initialContentChanged,
                  tasks, pn, log, lastErr >>

\* a user appends the paragraph "n" to the fragment
HistInsertParagraph ==
  \E user \in {"A", "B"} :
    LET t == input.now + 1
        p == Len(ys) + 1
    IN Moved([ys EXCEPT ![Root].kids = Append(@, p)]
               \o << HItem("el", "p", <<p + 1>>, <<>>, t, user, Root),
                     HItem("text", "", <<>>, << HChar("n", t, user) >>, t, user, p) >>,
             "paragraph", user)

\* user A appends an image to the first live paragraph
HistInsertImage ==
  /\ LiveNamed(ys, Root, "p") # <<>>
  /\ LET p == LiveNamed(ys, Root, "p")[1]
     IN Moved([ys EXCEPT ![p].kids = Append(@, Len(ys) + 1)]
                \o << HItem("el", "img", <<>>, <<>>, input.now + 1, "A", p) >>,
              "image", "A")

\* user A appends the character "y" to the text of the first live paragraph
HistInsertText ==
  /\ LiveNamed(ys, Root, "p") # <<>>
  /\ LET text == ys[LiveNamed(ys, Root, "p")[1]].kids[1]
     IN Moved([ys EXCEPT ![text].chars = Append(@, HChar("y", input.now + 1, "A"))], "text", "A")

\* user B deletes the last live paragraph with all it holds
HistDeleteParagraph ==
  /\ LiveNamed(ys, Root, "p") # <<>>
  /\ LET ps == LiveNamed(ys, Root, "p")
     IN Moved(DeletedAt(ys, Subtree(ys, ps[Len(ps)]), input.now + 1, "B"), "delete", "B")

\* user B deletes the last live image of the first live paragraph
HistDeleteImage ==
  /\ LiveNamed(ys, Root, "p") # <<>>
  /\ LiveNamed(ys, LiveNamed(ys, Root, "p")[1], "img") # <<>>
  /\ LET imgs == LiveNamed(ys, LiveNamed(ys, Root, "p")[1], "img")
     IN Moved(DeletedAt(ys, {imgs[Len(imgs)]}, input.now + 1, "B"), "delete", "B")

\* user B deletes the first live character of the first live paragraph
HistDeleteText ==
  /\ LiveNamed(ys, Root, "p") # <<>>
  /\ LET text == ys[LiveNamed(ys, Root, "p")[1]].kids[1]
         live == { j \in 1..Len(ys[text].chars) : ys[text].chars[j].gone = 0 }
     IN /\ live # {}
        /\ LET j == CHOOSE j \in live : \A k \in live : j <= k
           IN Moved([ys EXCEPT ![text].chars[j].gone = input.now + 1, ![text].chars[j].goneBy = "B"],
                    "delete", "B")

\* Y.snapshot(doc): the first is the previous snapshot of the render, the
\* second its snapshot
TakeSnapshot ==
  /\ steps < MaxHistory
  /\ Len(input.snaps) < 2
  /\ input' = [input EXCEPT !.snaps = Append(@, input.now)]
  /\ ev' = << Ev("snapshot", "", input.now, 0, <<>>) >>
  /\ steps' = steps + 1
  /\ UNCHANGED << ys, mapping, prosemirrorView, listeners, beforeTransactionSelection, signals, differed, doc, pluginState, psid, initialContentChanged,
                  tasks, pn, log, lastErr >>

\* _renderSnapshot(snapshot, prevSnapshot, pluginState): the live table is
\* cleared, the content is built and dispatched as a change of the binding;
\* an element that could not be built is deleted
RenderHistory ==
  /\ Len(input.snaps) = 2
  /\ ~Did("rendered")
  /\ LET Dispatched(r) ==
           /\ doc' = PElem(0, "doc", EmptyFn, {}, r.n)
           /\ ys' = DeletedAt(ys, UNION { Subtree(ys, id) : id \in r.healed }, input.now + 1, "")
           /\ pluginState' = [pluginState EXCEPT !.isChangeOrigin = TRUE, !.isUndoRedoOperation = FALSE]
     IN Dispatched(fragmentContentAt(ys, input.snaps[2], input.snaps[1]))
  /\ mapping' = EmptyFn
  /\ ev' = << Ev("rendered", "", input.snaps[2], input.snaps[1], <<>>) >>
  /\ UNCHANGED << prosemirrorView, listeners, beforeTransactionSelection, signals, differed, psid, initialContentChanged, tasks, pn, log, lastErr, steps, input >>

NextSnapshot ==
  \/ HistInsertParagraph
  \/ HistInsertImage
  \/ HistInsertText
  \/ HistDeleteParagraph
  \/ HistDeleteImage
  \/ HistDeleteText
  \/ TakeSnapshot
  \/ RenderHistory

SpecSnapshot == InitSnapshot /\ [][NextSnapshot]_vars

(***************************************************************************)
(* C13: what a render of two snapshots shows.                              *)
(***************************************************************************)
\* the element nodes of a content
ElementsIn(c) == { c[i] : i \in { j \in 1..Len(c) : ~isText(c[j]) } }

\* the element nodes the document shows, at the top level and below
RenderedElements ==
  ElementsIn(doc.content) \cup UNION { ElementsIn(n.content) : n \in ElementsIn(doc.content) }

\* the two snapshots of the render that ran last
S0 == ev[Len(ev)].b

S1 == ev[Len(ev)].a

\* made after S0 and until S1
InsertedBetween(x) == S0 < x.made /\ x.made <= S1

DeletedBetween(x) == S0 < x.gone /\ x.gone <= S1

\* the characters of the history
HistoryChars == UNION { { ys[i].chars[j] : j \in 1..Len(ys[i].chars) } : i \in 1..Len(ys) }

HistoryItems == { ys[i] : i \in 2..Len(ys) } \cup HistoryChars

\* between the two snapshots user A inserted, and nothing else happened
OnlyInsertionsOfA ==
  /\ \E x \in HistoryItems : InsertedBetween(x)
  /\ \A x \in HistoryItems : (InsertedBetween(x) => x.user = "A") /\ ~DeletedBetween(x)

\* the mark of attribution a span inserted by its user has, none otherwise
AddedMark(x) ==
  IF InsertedBetween(x) THEN {Mark("ychange", [type |-> "added", user |-> x.user])} ELSE {}

\* the characters of a content with their marks, in order
RECURSIVE MarkedChars(_)
MarkedChars(c) ==
  IF c = <<>> THEN <<>>
  ELSE (IF isText(Head(c))
        THEN [j \in 1..Len(Head(c).text) |-> [c |-> Head(c).text[j], marks |-> Head(c).marks]]
        ELSE <<>>) \o MarkedChars(Tail(c))

\* the characters of a text run that exist at S1, each with the mark wanted
WantedChars(chars) ==
  LET at == SeqFilterIdx(chars, [j \in 1..Len(chars) |-> isVisible(chars[j], S1)], 1)
  IN [j \in 1..Len(at) |-> [c |-> at[j].c, marks |-> AddedMark(at[j])]]

\* the children of a type that exist at S1
WantedKids(id) == SeqFilterIdx(ys[id].kids, [j \in 1..Len(ys[id].kids) |-> isVisible(ys[ys[id].kids[j]], S1)], 1)

\* the references of the element nodes of a content, in order
ElementRefs(c) ==
  LET els == SeqFilterIdx(c, [j \in 1..Len(c) |-> ~isText(c[j])], 1)
  IN [j \in 1..Len(els) |-> els[j].ref]

\* the elements among the items `ids`
ElementIds(ids) == SeqFilterIdx(ids, [j \in 1..Len(ids) |-> ys[ids[j]].kind = "el"], 1)

\* exactly what was inserted between the snapshots is marked as added by
\* its user, and all that S1 shows is rendered
AttributedToInsertion ==
  /\ ElementRefs(doc.content) = WantedKids(Root)
  /\ \A n \in RenderedElements :
       /\ n.attrs[Key("ychange")] =
            (IF InsertedBetween(ys[n.ref]) THEN computeYChange("added", ys[n.ref]) ELSE Null)
       /\ ElementRefs(n.content) = ElementIds(WantedKids(n.ref))
       /\ n.type = "p" => MarkedChars(n.content) = WantedChars(ys[ys[n.ref].kids[1]].chars)

\* C13 (the attribution): after a render of (S1, S0) with only insertions of
\* user A between S0 and S1, exactly the inserted elements and characters
\* are marked as added by A and nothing else is marked as changed; and an
\* element of the top level that neither snapshot shows is not rendered
C13_InsertionIsAttributed ==
  Did("rendered") =>
    /\ OnlyInsertionsOfA => AttributedToInsertion
    /\ \A n \in ElementsIn(doc.content) : isVisible(ys[n.ref], S1) \/ isVisible(ys[n.ref], S0)

\* C13 as stated: the attribution, and no element that neither snapshot
\* shows is rendered, at the top level or nested
C13_SnapshotAttribution ==
  Did("rendered") =>
    /\ OnlyInsertionsOfA => AttributedToInsertion
    /\ \A n \in RenderedElements : isVisible(ys[n.ref], S1) \/ isVisible(ys[n.ref], S0)

\* an image inserted and deleted between the snapshots is rendered, marked
\* as removed, in the paragraph that both snapshots show
C13_NestedGhost ==
  /\ Did("rendered")
  /\ \E p \in ElementsIn(doc.content) : \E n \in ElementsIn(p.content) :
       /\ InsertedBetween(ys[n.ref]) /\ DeletedBetween(ys[n.ref])
       /\ n.attrs[Key("ychange")] = computeYChange("removed", ys[n.ref])
       /\ p.attrs[Key("ychange")] = Null

\* a paragraph and a character of user A are rendered as added by A next to
\* what user B made before
C13_Witness ==
  /\ Did("rendered") /\ OnlyInsertionsOfA /\ AttributedToInsertion
  /\ \E n \in ElementsIn(doc.content) : n.attrs[Key("ychange")] = computeYChange("added", ys[n.ref])
  /\ \E n \in ElementsIn(doc.content) :
       /\ n.attrs[Key("ychange")] = Null
       /\ Len(n.content) = 2
       /\ n.content[1].marks = {}
       /\ n.content[2].marks = {Mark("ychange", [type |-> "added", user |-> "A"])}

(***************************************************************************)
(* C14: the snapshot held by the plugin state and the forward direction.   *)
(***************************************************************************)
\* the plugin state of the view holds a snapshot or a previous snapshot
HoldsSnapshot(ps) == ps.snapshot # NoSnap \/ ps.prevSnapshot # NoSnap

\* the forward synchronizations of the last handler that ran while the
\* plugin state of the view held a snapshot
ForwardUnderSnapshot == { i \in Events("forward") : ev[i].by = "snapshot" }

\* C14 (the part that holds): while the plugin state holds a snapshot the
\* surface is not editable, and the update of the plugin view that follows
\* a dispatch starts no forward synchronization
C14_ViewUpdateSkipsUnderSnapshot ==
  /\ HoldsSnapshot(pluginState) => ~editable(pluginState)
  /\ \A i \in ForwardUnderSnapshot :
       /\ Events("rendering") # {}
       /\ \A j \in Events("update") : j < i

\* C14: while the plugin state holds a snapshot or a previous snapshot no
\* forward synchronization runs and the surface is not editable
C14_NoForwardSyncUnderSnapshot ==
  /\ HoldsSnapshot(pluginState) => ~editable(pluginState)
  /\ ForwardUnderSnapshot = {}

\* the queued callback of a restore rendered the snapshot and then ran
\* _prosemirrorChanged, and the plugin state of the view still holds the
\* snapshot
C14_Witness ==
  /\ prosemirrorView /\ lastErr = "none"
  /\ HoldsSnapshot(pluginState) /\ ~editable(pluginState)
  /\ ForwardUnderSnapshot # {}
  /\ Events("rendering") # {}

(***************************************************************************)
(* C15: the mapping tables of a snapshot render.                           *)
(***************************************************************************)
\* the last handler was a snapshot render and nothing else
RenderedLast == Did("rendered")

\* C15: when _renderSnapshot returns the live mapping table is empty,
\* whatever it held before and whatever the render built; after a handler
\* that only rendered, the table of the binding is empty
C15_SnapshotRenderSparesLiveTable ==
  /\ \A i \in Events("rendered") : ev[i].a = 0
  /\ RenderedLast => mapping = EmptyFn

\* a render built nodes for shared elements, all registered in its own
\* table, and the live table is empty
C15_Witness ==
  /\ RenderedLast /\ lastErr = "none"
  /\ ev[Len(ev)].b > 0
  /\ doc.content # <<>>
  /\ mapping = EmptyFn

(***************************************************************************)
(* C16: the keys of the live mapping table and the deleted types.          *)
(***************************************************************************)
\* the keys of the live mapping table that are deleted types
DeadKeys == { k \in DOMAIN mapping : ys[k].del }

\* a forward or a reverse synchronization ran in the last handler
Synchronized == Events("forward") # {} \/ Events("built") # {}

\* C16 (what holds): after a synchronization a deleted type that is a key
\* of the live mapping table lies under a deleted type: the type that
\* the synchronizer deleted itself is no key
C16_DeletedRootsAreNoKeys ==
  Synchronized =>
    \A k \in DeadKeys : ys[k].parent # 0 /\ ys[ys[k].parent].del

\* C16: after a forward or a reverse synchronization no key of the live
\* mapping table is a deleted type
C16_NoDeletedKeys == Synchronized => DeadKeys = {}

\* after a forward synchronization that deleted a paragraph, the text run of
\* that paragraph is still a key of the live mapping table
C16_Witness ==
  /\ Events("forward") # {} /\ lastErr = "none"
  /\ \E k \in DeadKeys :
       /\ ys[k].kind = "text"
       /\ ys[ys[k].parent].del
       /\ ys[k].parent \notin DOMAIN mapping
       /\ \E i \in 1..Len(log) : log[i].op = "delete" /\ log[i].id = ys[k].parent /\ log[i].fwd

(***************************************************************************)
(* C17: the live mapping table after a synchronization.                    *)
(***************************************************************************)
RECURSIVE Counterparts(_, _)
\* the pairs of a live shared element under `type` and the element node of
\* `node` that shows it: the element children in order, and so on below
Counterparts(type, node) ==
  LET els == KidsOfKind(type, "el")
      nodes == SeqFilterIdx(node.content, [i \in 1..Len(node.content) |-> ~isText(node.content[i])], 1)
  IN IF Len(els) # Len(nodes) THEN {}
     ELSE UNION { {<< els[i], nodes[i] >>} \cup Counterparts(els[i], nodes[i]) : i \in 1..Len(els) }

\* the pairs of a live text run with characters and the text nodes that
\* show it, for the elements that hold at most one such run
TextCounterparts ==
  LET Runs(type) == SeqFilterIdx(KidsOfKind(type, "text"),
                                 [i \in 1..Len(KidsOfKind(type, "text")) |->
                                    ys[KidsOfKind(type, "text")[i]].chars # <<>>], 1)
      Texts(node) == SeqFilterIdx(node.content, [i \in 1..Len(node.content) |-> isText(node.content[i])], 1)
  IN { << Runs(c[1])[1], Texts(c[2]) >> : c \in { d \in Counterparts(Root, doc) : Len(Runs(d[1])) = 1 } }

\* a synchronization returned with no snapshot held, and the document shows
\* the live fragment
SynchronizedLive ==
  /\ Synchronized /\ lastErr = "none"
  /\ prosemirrorView /\ editable(pluginState)
  /\ Events("rendering") = {}
  /\ Reflects(Root, doc.content)

\* C17 (the children of the fragment): after a forward or a reverse
\* synchronization with no snapshot held, every live element child of the
\* bound fragment that the document shows is a key of the live mapping
\* table, and its value is the node that shows it
C17_TopLevelElementsAreMapped ==
  SynchronizedLive =>
    \A c \in Counterparts(Root, doc) :
      ys[c[1]].parent = Root => (c[1] \in DOMAIN mapping /\ mapping[c[1]] = ElSlot(c[2]))

\* after a forward synchronization an element below an unchanged paragraph
\* has for value a node that the document does not hold any more
C17_StaleBelow ==
  /\ SynchronizedLive /\ Events("forward") # {}
  /\ \E c \in Counterparts(Root, doc) :
       /\ ys[c[1]].parent # Root
       /\ c[1] \in DOMAIN mapping
       /\ mapping[c[1]] # ElSlot(c[2])

\* C17: the same for the elements and for the text runs, whose value is the
\* list of the text nodes that show the run
C17_AllTypesAreMapped ==
  SynchronizedLive =>
    /\ \A c \in Counterparts(Root, doc) :
         c[1] \in DOMAIN mapping /\ mapping[c[1]] = ElSlot(c[2])
    /\ \A c \in TextCounterparts :
         c[1] \in DOMAIN mapping /\ mapping[c[1]] = ArrSlot(c[2])

\* after a reverse synchronization a paragraph of another peer is a key of
\* the live mapping table with its node, and its text run is no key
C17_Witness ==
  /\ SynchronizedLive /\ Events("built") # {}
  /\ \E c \in Counterparts(Root, doc) :
       ys[c[1]].parent = Root /\ c[1] \in DOMAIN mapping /\ mapping[c[1]] = ElSlot(c[2])
  /\ \E c \in TextCounterparts : c[1] \notin DOMAIN mapping /\ c[2] # <<>>

(***************************************************************************)
(* The selection of a reverse synchronization.  A relative selection is    *)
(* {type, anchor, head}; an endpoint holds whether the relative position   *)
(* is there (rel) and what the lookup of it gives in the document of the   *)
(* transaction: a position, or -1 for null.  The transaction is            *)
(* [doc, sel, err]; its selection is the default one until one is set.     *)
(***************************************************************************)
\* the selection a transaction has when none was set
DefaultSelection == [kind |-> "default", anchor |-> 0, head |-> 0]

NoSel == [type |-> "null", anchor |-> [rel |-> FALSE, abs |-> -1], head |-> [rel |-> FALSE, abs |-> -1]]

\* node.nodeSize of ProseMirror
RECURSIVE nodeSize(_)
nodeSize(n) ==
  IF isText(n) THEN Len(n.text)
  ELSE IF n.type = "img" THEN 1
  ELSE 2 + (LET RECURSIVE Sum(_)
                Sum(c) == IF c = <<>> THEN 0 ELSE nodeSize(Head(c)) + Sum(Tail(c))
            IN Sum(n.content))

\* doc.content.size
contentSize(content) == nodeSize(PElem(0, "doc", EmptyFn, {}, content)) - 2

RECURSIVE nodeAfter(_, _)
\* doc.resolve(pos).nodeAfter: the node after the position, as a sequence of
\* at most one node
nodeAfter(content, pos) ==
  IF content = <<>> THEN <<>>
  ELSE IF pos = 0 THEN << Head(content) >>
  ELSE IF pos >= nodeSize(Head(content)) THEN nodeAfter(Tail(content), pos - nodeSize(Head(content)))
  ELSE IF isText(Head(content))
  THEN << PText(0, SubSeq(Head(content).text, pos + 1, Len(Head(content).text)), Head(content).marks) >>
  ELSE nodeAfter(Head(content).content, pos - 1)

\* relativePositionToAbsolutePosition(binding.doc, binding.type, relPos,
\* binding.mapping): the position, or null (-1) when the anchor does not
\* resolve
relativePositionToAbsolutePosition(relPos) == relPos.abs

\* tr.setSelection(selection)
setSelection(tr, selection) == [tr EXCEPT !.sel = selection]

\* NodeSelection.create(tr.doc, anchor) and tr.setSelection of it;
\* ProseMirror takes null for position 0 where it compares or subtracts, and
\* fails where it finds no node after the position
setNodeSelection(tr, anchor) ==
  LET pos == IF anchor = -1 THEN 0 ELSE anchor
  IN IF anchor = -1 /\ tr.doc.content = <<>> THEN [tr EXCEPT !.err = "RangeError"]
     ELSE IF nodeAfter(tr.doc.content, pos) = <<>> THEN [tr EXCEPT !.err = "TypeError"]
     ELSE setSelection(tr, [kind |-> "node", anchor |-> pos, head |-> pos + nodeSize(nodeAfter(tr.doc.content, pos)[1])])

\* restoreRelativeSelection(tr, relSel, binding)
restoreRelativeSelection(tr, relSel) ==
  IF relSel # NoSel /\ relSel.anchor.rel /\ relSel.head.rel
  THEN IF relSel.type = "all"
       THEN setSelection(tr, [kind |-> "all", anchor |-> 0, head |-> contentSize(tr.doc.content)])
       ELSE IF relSel.type = "node"
       THEN setNodeSelection(tr, relativePositionToAbsolutePosition(relSel.anchor))
       ELSE LET anchor == relativePositionToAbsolutePosition(relSel.anchor)
                head == relativePositionToAbsolutePosition(relSel.head)
            IN IF anchor # -1 /\ head # -1
               THEN setSelection(tr, [kind |-> "text", anchor |-> anchor, head |-> head])
               ELSE tr
  ELSE tr

\* the documents of the transactions
SelectionDocs ==
  { <<>>,
    << PElem(1, "p", [key \in {Key("a")} |-> Null], {}, << PText(2, <<"a", "b">>, {}) >>) >>,
    << PElem(1, "p", [key \in {Key("a")} |-> Null], {}, << PText(2, <<"a">>, {}) >>),
       PElem(3, "img", [key \in {Key("a")} |-> Null], {}, <<>>) >> }

\* the endpoints of a relative selection for a document
Endpoints(content) ==
  { [rel |-> FALSE, abs |-> -1] } \cup { [rel |-> TRUE, abs |-> p] : p \in -1..contentSize(content) }

SelectionInputs ==
  UNION { { [content |-> c, relSel |-> NoSel] }
          \cup { [content |-> c, relSel |-> [type |-> t, anchor |-> a, head |-> h]] :
                   t \in {"all", "node", "text"}, a \in Endpoints(c), h \in Endpoints(c) }
          : c \in SelectionDocs }

InitSelection ==
  /\ input \in SelectionInputs
  /\ ys = << EmptyFragment >>
  /\ mapping = EmptyFn
  /\ prosemirrorView = TRUE
  /\ listeners = ListenersOnce
  /\ beforeTransactionSelection = 0
  /\ signals = <<>>
  /\ differed = FALSE
  /\ doc = PElem(0, "doc", EmptyFn, {}, input.content)
  /\ pluginState = InitPluginState
  /\ psid = 0
  /\ initialContentChanged = FALSE
  /\ tasks = <<>>
  /\ pn = 10
  /\ ev = <<>>
  /\ log = <<>>
  /\ lastErr = "none"
  /\ steps = 0

\* _typeChanged, line 637: the selection of before the transaction is
\* restored in the transaction that replaced the content
RestoreSelection ==
  /\ steps = 0
  /\ LET Restored(tr) ==
           /\ ev' = << Ev("restored", input.relSel.type, 0, 0, << tr.sel >>) >>
           /\ lastErr' = tr.err
     IN Restored(restoreRelativeSelection([doc |-> doc, sel |-> DefaultSelection, err |-> "none"], input.relSel))
  /\ steps' = 1
  /\ UNCHANGED << ys, mapping, prosemirrorView, listeners, beforeTransactionSelection, signals, differed, doc, pluginState, psid, initialContentChanged,
                  tasks, pn, log, input >>

NextSelection == RestoreSelection

SpecSelection == InitSelection /\ [][NextSelection]_vars

(***************************************************************************)
(* C18: a selection whose anchor does not resolve.                         *)
(***************************************************************************)
\* the relative selection is there and the lookup of an endpoint that the
\* restore of its kind needs gives null
Unresolved ==
  /\ input.relSel # NoSel /\ input.relSel.anchor.rel /\ input.relSel.head.rel
  /\ \/ input.relSel.anchor.abs = -1
     \/ input.relSel.type # "node" /\ input.relSel.head.abs = -1

\* no selection was set and nothing was thrown
DefaultKept == ev[1].c = << DefaultSelection >> /\ lastErr = "none"

\* C18 (the range): when the lookup of the anchor or of the head of a range
\* selection gives null, no selection is set and nothing is thrown
C18_UnresolvedRangeKeepsDefault ==
  (Did("restored") /\ Unresolved /\ input.relSel.type = "text") => DefaultKept

\* C18: when the lookup of an endpoint gives null, no selection is set and
\* nothing is thrown, for a range, a node and an all selection
C18_UnresolvedKeepsDefault ==
  (Did("restored") /\ Unresolved) => DefaultKept

\* the anchor of a node selection did not resolve, and the restore threw or
\* selected the first node of the document
C18_Witness ==
  /\ Did("restored") /\ Unresolved /\ input.relSel.type = "node"
  /\ \/ lastErr # "none"
     \/ ev[1].c[1].kind = "node" /\ ev[1].c[1].anchor = 0

\* the head of a range selection did not resolve and the default selection
\* was kept
C18_RangeWitness ==
  /\ Did("restored") /\ Unresolved /\ input.relSel.type = "text"
  /\ input.relSel.anchor.abs # -1
  /\ DefaultKept

(***************************************************************************)
(* C19: the reconciliation of an element with a node of another type.      *)
(***************************************************************************)
\* the step reconciles the element with a node whose type name is not the
\* name of the element
MismatchedReconcile ==
  /\ steps = 0 /\ steps' = 1
  /\ ev' # <<>> /\ ev'[Len(ev')].e = "reconcile"
  /\ ys[Elem].kind = "el"
  /\ ys[Elem].name # input.n.type

\* C19: updateYFragment called for a shared element and a node of another
\* type name throws 'node name mismatch!', and neither the mapping table nor
\* the shared types have changed: no entry is set and no change is logged
C19_MismatchRaisesBeforeAnyChange ==
  [][MismatchedReconcile =>
       /\ lastErr' = "node name mismatch!"
       /\ mapping' = mapping
       /\ ys' = ys
       /\ log' = <<>>]_vars

\* a paragraph that is a key of the mapping table was reconciled with an
\* image: the call threw, and the table holds the paragraph with its node
C19_Witness ==
  /\ Did("reconcile") /\ lastErr = "node name mismatch!"
  /\ ys[Elem].name = "p" /\ input.n.type = "img"
  /\ Elem \in DOMAIN mapping /\ mapping[Elem] = ElSlot(input.n0)
  /\ log = <<>>

(***************************************************************************)
(* C20: attaching and detaching a view.                                    *)
(***************************************************************************)
\* a change of another peer was applied by the last handler
RemoteChange == \E k \in 1..Len(log) : log[k].org = RemoteOrigin

\* the last handler was a destroy() that found no view attached
DetachedNothing == ev' = << Ev("detach", "none", 0, 0, <<>>) >>

\* the observer and the two listeners are registered once each while a view
\* is attached and not at all while none is
RegisteredOnce == listeners = IF prosemirrorView THEN ListenersOnce ELSE NoListeners

\* C20: after any sequence of initView and destroy the deep observer of the
\* fragment and the listeners of beforeAllTransactions and
\* afterAllTransactions are registered exactly once each while a view is
\* attached and not at all while none is; destroy without a view changes
\* nothing of the binding, the document or the shared types; a change of the
\* shared types that arrives while no view is attached dispatches no
\* transaction and leaves the document of the editor as it was
C20_RegisteredOncePerView ==
  [][/\ RegisteredOnce'
     /\ DetachedNothing =>
          /\ ~prosemirrorView
          /\ UNCHANGED << ys, mapping, prosemirrorView, listeners, beforeTransactionSelection, signals, differed, doc, pluginState, psid,
                          initialContentChanged, tasks, pn >>
          /\ log' = <<>> /\ lastErr' = "none"
     /\ (~prosemirrorView' /\ RemoteChange') =>
          /\ Events("dispatch")' = {} /\ Events("observer")' = {}
          /\ UNCHANGED << doc, mapping, pluginState >>]_vars

\* a second view was attached while the first one still was
C20_Witness ==
  /\ prosemirrorView /\ listeners = ListenersOnce
  /\ \E i \in Events("attach") : ev[i].by = "attached"
  /\ \E i \in Events("detach") : ev[i].by = "attached"

\* destroy was called again after the view had been detached
C20_DetachedTwice ==
  /\ ~prosemirrorView /\ listeners = NoListeners
  /\ ev = << Ev("detach", "none", 0, 0, <<>>) >>
  /\ mapping # EmptyFn

\* a change of another peer arrived after the view had been detached
C20_ChangedDetached ==
  /\ ~prosemirrorView /\ RemoteChange
  /\ mapping # EmptyFn
  /\ ~Reflects(Root, doc.content)

(***************************************************************************)
(* The dirty middle on its own: two paragraphs of two images each are      *)
(* built into the fragment, and the fragment is reconciled with a document *)
(* of two other paragraphs.  A paragraph of the document holds images of   *)
(* the paragraph it replaces (the same objects), images equal to those,    *)
(* or other images.                                                        *)
(***************************************************************************)
Img(ref, a) == PElem(ref, "img", [key \in {Key("a")} |-> Prim(a)], {}, <<>>)

\* the paragraph `side` (0 left, 1 right) that is built first
OldParagraph(side) ==
  PElem(40 + side, "p", NoAttr, {}, << Img(42 + 2 * side, 1), Img(43 + 2 * side, 1) >>)

\* how a paragraph of the document differs from the one it replaces
MiddleKinds == {"other", "equal1", "same1", "last1", "equal2", "same2", "same1equal1"}

\* the paragraph of the document that takes the place of OldParagraph(side)
NewParagraph(side, kind) ==
  LET old == OldParagraph(side).content
      ref == 50 + 3 * side
      Of(attrs, content) == PElem(ref, "p", attrs, {}, content)
      changed == [key \in {Key("a")} |-> Prim(1)]
  IN CASE kind = "other" -> Of(NoAttr, << Img(ref + 1, 2), Img(ref + 2, 2) >>)
       [] kind = "equal1" -> Of(NoAttr, << Img(ref + 1, 1), Img(ref + 2, 2) >>)
       [] kind = "same1" -> Of(NoAttr, << old[1], Img(ref + 2, 2) >>)
       [] kind = "last1" -> Of(NoAttr, << Img(ref + 1, 2), Img(ref + 2, 1) >>)
       [] kind = "equal2" -> Of(changed, << Img(ref + 1, 1), Img(ref + 2, 1) >>)
       [] kind = "same2" -> Of(changed, old)
       [] kind = "same1equal1" -> Of(changed, << old[1], Img(ref + 2, 1) >>)

MiddleInputs ==
  { [n0 |-> PElem(0, "doc", EmptyFn, {}, << OldParagraph(0), OldParagraph(1) >>),
     n |-> PElem(0, "doc", EmptyFn, {}, << NewParagraph(0, l), NewParagraph(1, r) >>),
     keep |-> keep] : l \in MiddleKinds, r \in MiddleKinds, keep \in BOOLEAN }

InitMiddle ==
  /\ input \in MiddleInputs
  /\ LET Built(built) ==
           /\ ys = Tuple([i \in 1..Len(built.ys) |-> [built.ys[i] EXCEPT !.born = IF @ > 0 THEN 1 ELSE 0]])
           /\ mapping = IF input.keep THEN built.map ELSE EmptyFn
     IN Built(Build(Build(BlankWorld, input.n0.content[1]), input.n0.content[2]))
  /\ prosemirrorView = FALSE
  /\ listeners = NoListeners
  /\ beforeTransactionSelection = 0
  /\ signals = <<>>
  /\ differed = FALSE
  /\ doc = DefaultDoc
  /\ pluginState = InitPluginState
  /\ psid = 0
  /\ initialContentChanged = FALSE
  /\ tasks = <<>>
  /\ pn = 60
  /\ ev = <<>>
  /\ log = <<>>
  /\ lastErr = "none"
  /\ steps = 0

\* updateYFragment(doc, fragment, n, binding) in a transaction of the binding
ReconcileMiddle ==
  /\ steps = 0
  /\ Commit(Note(End(updateYFragment(Begin(World, ySyncPluginKey), Root, input.n)), "reconcile", "", 0, 0))

NextMiddle == ReconcileMiddle

SpecMiddle == InitMiddle /\ [][NextMiddle]_vars

(***************************************************************************)
(* C21: the side of the dirty middle that is updated.                      *)
(***************************************************************************)
\* the children of the fragment before the step
LeftY == toArray(ys, Root)[1]

RightY == toArray(ys, Root)[2]

\* computeChildEqualityFactor of each side before the step
EqualityLeft == computeChildEqualityFactor(World, LeftY, input.n.content[1])

EqualityRight == computeChildEqualityFactor(World, RightY, input.n.content[2])

\* the passes of the loop over the fragment's middle, in the order they ran
MiddlePasses == SeqFilterIdx(ev', [i \in 1..Len(ev') |-> ev'[i].e = "middle" /\ ev'[i].a \in {LeftY, RightY}], 1)

\* the side the rule of the code names
SideByRule(tie) ==
  IF EqualityLeft.foundMappedChild # EqualityRight.foundMappedChild
  THEN IF EqualityLeft.foundMappedChild THEN "left" ELSE "right"
  ELSE IF EqualityLeft.equalityFactor # EqualityRight.equalityFactor
  THEN IF EqualityLeft.equalityFactor > EqualityRight.equalityFactor THEN "left" ELSE "right"
  ELSE tie

\* the first pass took the side `tie` names for equal factors, and no other
ChoseBy(tie) ==
  /\ Len(MiddlePasses) = 2
  /\ MiddlePasses[1].by = SideByRule(tie)
  /\ MiddlePasses[1].a = IF SideByRule(tie) = "left" THEN LeftY ELSE RightY
  /\ MiddlePasses[1].b = 0
  \* the pointer of the other side stood still: the next pass is for the
  \* child the first one left, the only one between the pointers
  /\ MiddlePasses[2].a = IF SideByRule(tie) = "left" THEN RightY ELSE LeftY
  /\ MiddlePasses[2].b = 1

\* C21: when the left and the right child of the middle are elements with
\* the names of their nodes, one pass of the loop updates one of them and
\* moves the pointer of that side only; it is the side that alone has
\* foundMappedChild, else the side with the higher equality factor, and with
\* equal factors the left side
C21_TieUpdatesLeft == [][ReconcileMiddle => ChoseBy("left")]_vars

\* C21 as stated: with equal factors the right side is updated
C21_TieUpdatesRight == [][ReconcileMiddle => ChoseBy("right")]_vars

\* equal factors, and a mapped child on both sides: the left paragraph was
\* updated first, the right one after it
C21_Witness ==
  /\ Did("reconcile") /\ lastErr = "none"
  /\ input.keep
  /\ input.n.content[1].content[1] = OldParagraph(0).content[1]
  /\ input.n.content[2].content[1] = OldParagraph(1).content[1]
  /\ input.n.content[1].content[2].attrs = input.n.content[2].content[2].attrs
  /\ input.n.content[1].attrs = input.n.content[2].attrs
  /\ \E i, j \in Events("middle") :
       /\ i < j
       /\ ev[i].by = "left" /\ ev[i].a = toArray(ys, Root)[1] /\ ev[i].b = 0
       /\ ev[j].by = "left" /\ ev[j].a = toArray(ys, Root)[2] /\ ev[j].b = 1
  /\ equalYTypePNode(ys, toArray(ys, Root)[1], ElSlot(input.n.content[1]))
  /\ equalYTypePNode(ys, toArray(ys, Root)[2], ElSlot(input.n.content[2]))

(***************************************************************************)
(* The equality oracle on its own: a paragraph `n0` is built into the      *)
(* shared element, which another peer may have given an attribute          *)
(* "ychange", and the element and its first text run are compared with a   *)
(* node `n` and with the first run of text nodes of `n`.                   *)
(***************************************************************************)
\* the value of an attribute ychange: an object {user, type}
YChangeAttr == Obj(3, 1)

EqualShapes ==
  { [attrs |-> NoAttr, marks |-> {}],
    [attrs |-> [key \in {Key("a")} |-> Prim(1)], marks |-> {}],
    [attrs |-> [key \in {Key("a")} |-> Obj(1, 1)], marks |-> {}],
    [attrs |-> [key \in {Key("ychange")} |-> YChangeAttr], marks |-> {}],
    [attrs |-> NoAttr, marks |-> {Mark("strong", 0)}],
    [attrs |-> NoAttr, marks |-> {Mark("comment", 1)}] }

EqualContents ==
  { <<>>, <<"plain">>, <<"strong">>, <<"em">>, <<"long">>, <<"comments">>, <<"comment1">>, <<"img">>,
    <<"strong", "img1">>, <<"plain", "both">> }

EqualInputs ==
  { [n0 |-> Paragraph(1, s0, c0), n |-> Paragraph(2, s1, c1), keep |-> keep] :
      s0 \in EqualShapes, c0 \in EqualContents, s1 \in EqualShapes, c1 \in EqualContents, keep \in BOOLEAN }
  \cup { [n0 |-> Paragraph(1, PlainShape, <<>>), n |-> Piece(k), keep |-> keep] :
           k \in {"img", "plain"}, keep \in BOOLEAN }

\* input.keep: the element has an attribute ychange that another peer set
InitEqual ==
  /\ input \in EqualInputs
  /\ LET Built(built) ==
           /\ ys = Tuple([i \in 1..Len(built.ys) |->
                            [built.ys[i] EXCEPT !.born = IF @ > 0 THEN 1 ELSE 0,
                                                !.attrs = IF i = Elem /\ input.keep
                                                          THEN FnSet(@, Key("ychange"), YChangeAttr) ELSE @]])
           /\ mapping = EmptyFn
     IN Built(Build(BlankWorld, input.n0))
  /\ prosemirrorView = FALSE
  /\ listeners = NoListeners
  /\ beforeTransactionSelection = 0
  /\ signals = <<>>
  /\ differed = FALSE
  /\ doc = DefaultDoc
  /\ pluginState = InitPluginState
  /\ psid = 0
  /\ initialContentChanged = FALSE
  /\ tasks = <<>>
  /\ pn = 30
  /\ ev = <<>>
  /\ log = <<>>
  /\ lastErr = "none"
  /\ steps = 0

\* the first text run of the element and the first run of text nodes of `n`
FirstRun == KidsOfKind(Elem, "text")

FirstTexts ==
  SeqFilterIdx(normalizePNodeContent(input.n),
               [i \in 1..Len(normalizePNodeContent(input.n)) |-> normalizePNodeContent(input.n)[i].arr], 1)

\* the result of a comparison
Result(w, e, eq) == Note(w, e, IF eq THEN "true" ELSE "false", 0, 0)

\* equalYTypePNode(Elem, n), and for the first text run and the first run of
\* text nodes: equalYTextPText(run, texts), equalYTypePNode(run, n) and
\* equalYTypePNode(Elem, texts)
Compare ==
  /\ steps = 0
  /\ LET Node(w) == Result(w, "equalNode", equalYTypePNode(ys, Elem, ElSlot(input.n)))
         Text(w) ==
           IF FirstRun = <<>> \/ FirstTexts = <<>> THEN w
           ELSE Result(Result(Result(w, "equalText", equalYTextPText(ys, FirstRun[1], FirstTexts[1].a)),
                              "textAsNode", equalYTypePNode(ys, FirstRun[1], ElSlot(input.n))),
                       "nodeAsTexts", equalYTypePNode(ys, Elem, FirstTexts[1]))
     IN Commit(Text(Node(World)))

NextEqual == Compare

SpecEqual == InitEqual /\ [][NextEqual]_vars

\* the comparison `e` was made and gave `by`
Gave(e, by) == \E i \in Events(e) : ev[i].by = by

(***************************************************************************)
(* C22: equalYTextPText.                                                   *)
(***************************************************************************)
\* the segments of the run are, one to one, the text nodes: the same text,
\* as many attributes as marks, and every attribute is a mark of the node
\* with the name of the attribute and equal attrs
AlignedText(ytext, ptexts) ==
  \E delta \in { toDelta(ys, ytext) } :
    /\ Len(delta) = Len(ptexts)
    /\ \A i \in 1..Len(delta) :
         /\ delta[i].insert = ptexts[i].text
         /\ Cardinality(delta[i].attributes) = Cardinality(ptexts[i].marks)
         /\ \A at \in delta[i].attributes :
              \E mark \in ptexts[i].marks : mark.type = yattr2markname(at) /\ mark.id = at.val

\* a segment has an attribute of a mark type that its text node does not have
AttributeWithoutMark(ytext, ptexts) ==
  \E delta \in { toDelta(ys, ytext) } :
    /\ Len(delta) = Len(ptexts)
    /\ \E i \in 1..Len(delta) :
         \E at \in delta[i].attributes : \A mark \in ptexts[i].marks : mark.type # yattr2markname(at)

\* a text node has two marks of one type
TwoOfOneType(ptexts) ==
  \E i \in 1..Len(ptexts) : \E m1, m2 \in ptexts[i].marks : m1 # m2 /\ m1.type = m2.type

\* C22: equalYTextPText(run, texts) is true if and only if the segments of
\* the run and the text nodes are as many, each segment has the text of its
\* node and as many attributes as the node has marks, and every attribute,
\* its hash suffix stripped, names a mark of the node with equal attrs; it is
\* false when a segment has an attribute whose mark type the node has not
C22_EqualTextIffAligned ==
  /\ Gave("equalText", "true") <=> (Events("equalText") # {} /\ AlignedText(FirstRun[1], FirstTexts[1].a))
  /\ Events("equalText") # {} /\ AttributeWithoutMark(FirstRun[1], FirstTexts[1].a) => Gave("equalText", "false")

\* with at most one mark of a type on a text node, and no attribute of a type
\* the node has not, equalYTextPText is true exactly for aligned text
C22_EqualTextIffAlignedSimple ==
  (/\ Events("equalText") # {}
   /\ ~TwoOfOneType(FirstTexts[1].a)
   /\ ~AttributeWithoutMark(FirstRun[1], FirstTexts[1].a)) =>
    (Gave("equalText", "true") <=> AlignedText(FirstRun[1], FirstTexts[1].a))

\* the run 'a' with the attribute strong is equal to the text node 'a' with
\* the mark em
C22_Witness ==
  /\ Gave("equalText", "true")
  /\ input.n0.content = << Piece("strong") >>
  /\ input.n.content = << Piece("em") >>
  /\ AttributeWithoutMark(FirstRun[1], FirstTexts[1].a)

\* the run written from a text node with two comments is not equal to it
C22_OverlapUnequal ==
  /\ Gave("equalText", "false")
  /\ input.n0.content = << Piece("comments") >>
  /\ input.n.content = << Piece("comments") >>
  /\ AlignedText(FirstRun[1], FirstTexts[1].a)

(***************************************************************************)
(* C23: equalYTypePNode.                                                   *)
(***************************************************************************)
\* the attributes that count: neither null, nor a mark, nor ychange
PlainAttrs(attrs) == { key \in DOMAIN attrs : attrs[key] # Null /\ ~key.mk /\ key # Key("ychange") }

\* the marks the attributes of an element decode to
DecodedMarks(attrs) == { Mark(key.name, attrs[key].v) : key \in { k \in DOMAIN attrs : k.mk } }

RECURSIVE AlignedNode(_, _)
\* the names are the same, the attributes without ychange are the same on
\* both sides (objects by content), the marks the element holds are the
\* marks of the node, and the children are equal one to one
AlignedNode(yel, node) ==
  /\ ys[yel].kind = "el"
  /\ ys[yel].name = node.type
  /\ PlainAttrs(ys[yel].attrs) = PlainAttrs(node.attrs)
  /\ \A key \in PlainAttrs(node.attrs) : equalityDeep(ys[yel].attrs[key], node.attrs[key])
  /\ DecodedMarks(ys[yel].attrs) = node.marks
  /\ \E ykids \in { toArray(ys, yel) } :
     \E content \in { normalizePNodeContent(node) } :
       /\ Len(ykids) = Len(content)
       /\ \A i \in 1..Len(ykids) :
            IF content[i].arr
            THEN ys[ykids[i]].kind = "text" /\ AlignedText(ykids[i], content[i].a)
            ELSE AlignedNode(ykids[i], content[i].n[1])

\* the attribute ychange is on one side only
YChangeOnOneSide ==
  (Key("ychange") \in DOMAIN ys[Elem].attrs) # (Key("ychange") \in DOMAIN input.n.attrs)

\* C23: equalYTypePNode(element, node) is true if and only if the names are
\* the same, the attributes are the same with ychange left out on both sides
\* and objects compared by content, the marks decoded from the attributes are
\* exactly the marks of the node, and the children are equal one to one in
\* order; a text run is equal to no element node and an element to no list
\* of text nodes
C23_EqualNodeIffAligned ==
  /\ Events("equalNode") # {} => (Gave("equalNode", "true") <=> AlignedNode(Elem, input.n))
  /\ ~Gave("textAsNode", "true")
  /\ ~Gave("nodeAsTexts", "true")

\* with ychange on both sides or on none, and text nodes that have at most
\* one mark of a type and a mark for every attribute, equalYTypePNode is
\* true exactly for an aligned node
C23_EqualNodeIffAlignedSimple ==
  /\ (/\ Events("equalNode") # {}
      /\ ~YChangeOnOneSide
      /\ FirstRun # <<>> /\ FirstTexts # <<>> =>
           /\ ~TwoOfOneType(FirstTexts[1].a)
           /\ ~AttributeWithoutMark(FirstRun[1], FirstTexts[1].a)) =>
       (Gave("equalNode", "true") <=> AlignedNode(Elem, input.n))
  /\ ~Gave("textAsNode", "true")
  /\ ~Gave("nodeAsTexts", "true")

\* an element without ychange and a node that differs from it by a ychange
\* of a snapshot render only are not equal
C23_Witness ==
  /\ Gave("equalNode", "false")
  /\ AlignedNode(Elem, input.n)
  /\ Key("ychange") \in DOMAIN input.n.attrs
  /\ Key("ychange") \notin DOMAIN ys[Elem].attrs
  /\ input.n.content = input.n0.content /\ input.n.content = << Piece("plain"), Piece("both") >>

\* a text run was compared with an element node, and an element with text
\* nodes
C23_Crossed == Gave("textAsNode", "false") /\ Gave("nodeAsTexts", "false")

(***************************************************************************)
(* C24: the attributes that marks are written to.                          *)
(***************************************************************************)
\* the element the round trip made of `n`
Made == ev[Len(ev)].a

\* the attributes of the element that hold marks
MarkKeysOf(id) == { key \in DOMAIN ys[id].attrs : key.mk }

\* the attributes of the segments of the text runs of the element hold the
\* marks of the text nodes of `n`, one attribute a mark: under the name of
\* the type when the type excludes itself, under the name and a hash else
TextMarksProjected ==
  \A i \in 1..Len(toArray(ys, Made)) :
    isText(input.n.content[1]) /\ ys[toArray(ys, Made)[i]].kind = "text" =>
      \E delta \in { toDelta(ys, toArray(ys, Made)[i]) } :
        \A j \in 1..Len(delta) :
          /\ Cardinality(delta[j].attributes) = Cardinality(input.n.content[j].marks)
          /\ \A at \in delta[j].attributes : (at.hash = 0) <=> ExcludesItself(at.name)

\* the text nodes that came back have the marks of the text nodes of `n`
TextMarksBack ==
  /\ Len(doc.content[1].content) = Len(input.n.content)
  /\ \A j \in 1..Len(input.n.content) : doc.content[1].content[j].marks = input.n.content[j].marks

\* C24: every mark of a text node and of a node is written to an attribute
\* of its own, under the name of its type when the type excludes itself and
\* under the name and a hash of the mark when it does not; two marks of such
\* a type with different attrs on one node or one text node are two
\* attributes, and both are on the node that is built back
C24_MarksSurviveRoundTrip ==
  (Did("roundtrip") /\ lastErr = "none" /\ input.n.type = "p") =>
    /\ doc.content # <<>>
    /\ TextMarksProjected
    /\ TextMarksBack
    /\ Cardinality(MarkKeysOf(Made)) = Cardinality(input.n.marks)
    /\ doc.content[1].marks = input.n.marks

\* the marks of text nodes are written and come back as stated, and so do
\* the marks of a node that has no two marks of one type
C24_SurviveOnTextAndSingly ==
  (Did("roundtrip") /\ lastErr = "none" /\ input.n.type = "p") =>
    /\ doc.content # <<>>
    /\ TextMarksProjected
    /\ TextMarksBack
    /\ input.n.marks # Overlapping =>
         /\ Cardinality(MarkKeysOf(Made)) = Cardinality(input.n.marks)
         /\ doc.content[1].marks = input.n.marks

\* a paragraph with two comments that holds a text node with the same two
\* comments went round: the text run has two attributes and the text node
\* that came back both marks; the element has one attribute and the
\* paragraph that came back one mark
C24_Witness ==
  /\ Did("roundtrip") /\ lastErr = "none"
  /\ input.n.marks = Overlapping
  /\ input.n.content = << Piece("comments") >>
  /\ Cardinality(toDelta(ys, toArray(ys, Made)[1])[1].attributes) = 2
  /\ doc.content[1].content[1].marks = Overlapping
  /\ Cardinality(MarkKeysOf(Made)) = 1
  /\ Cardinality(doc.content[1].marks) = 1

(***************************************************************************)
(* C25: a paragraph that lost its only text.                               *)
(***************************************************************************)
\* the element was built with one child, a text run, and `n` has no child
LoneRunEmptied ==
  /\ input.n0.type = "p" /\ input.n.type = "p"
  /\ input.n0.content # <<>> /\ \A i \in 1..Len(input.n0.content) : isText(input.n0.content[i])
  /\ input.n.content = <<>>

\* C25: when the element had one child, a text run, and the node has no
\* children, updateYFragment deletes the characters of the run and not the
\* run: the run is still the one live child of the element, its length is
\* 0, and no child of the element was inserted or deleted
C25_LoneRunIsEmptiedInPlace ==
  (Did("reconcile") /\ lastErr = "none" /\ LoneRunEmptied) =>
    /\ ys[Elem].kids = << Elem + 1 >>
    /\ ys[Elem + 1].kind = "text" /\ ~ys[Elem + 1].del
    /\ ys[Elem + 1].chars = <<>>
    /\ \A i \in 1..Len(log) : log[i].op \notin {"insert", "delete"}
    /\ Len(ys) = Elem + 1

\* the run of the bold text 'a' and the bold italic 'b' was emptied
C25_Witness ==
  /\ Did("reconcile") /\ lastErr = "none" /\ LoneRunEmptied
  /\ input.n0.content = << Piece("plain"), Piece("both") >>
  /\ \E i \in 1..Len(log) : log[i].op = "textDelete" /\ log[i].id = Elem + 1
  /\ toArray(ys, Elem) = << Elem + 1 >>
  /\ ys[Elem + 1].chars = <<>>

(***************************************************************************)
(* C26: a text run that is updated in place.                               *)
(***************************************************************************)
\* the first child of the element is a text run, the first slot of `n` a
\* list of text nodes that is neither mapped to the run nor equal to it
TextDirty ==
  /\ steps = 0
  /\ input.n0.type = "p" /\ input.n.type = "p"
  /\ FirstRun # <<>> /\ FirstRun[1] = Elem + 1 /\ toArray(ys, Elem)[1] = Elem + 1
  /\ FirstTexts # <<>> /\ normalizePNodeContent(input.n)[1].arr
  /\ ~mappedIdentity(mapping, Elem + 1, FirstTexts[1])
  /\ ~equalYTextPText(ys, Elem + 1, FirstTexts[1].a)

\* the length of the longest common prefix of a and b
CommonPrefix(a, b) ==
  CHOOSE k \in 0..Min(Len(a), Len(b)) :
    /\ SubSeq(a, 1, k) = SubSeq(b, 1, k)
    /\ \A l \in (k + 1)..Min(Len(a), Len(b)) : SubSeq(a, 1, l) # SubSeq(b, 1, l)

\* the length of the longest common suffix of what the prefix leaves
CommonSuffix(a, b) ==
  LET rest == Min(Len(a), Len(b)) - CommonPrefix(a, b)
  IN CHOOSE k \in 0..rest :
       /\ SubSeq(a, Len(a) - k + 1, Len(a)) = SubSeq(b, Len(b) - k + 1, Len(b))
       /\ \A l \in (k + 1)..rest : SubSeq(a, Len(a) - l + 1, Len(a)) # SubSeq(b, Len(b) - l + 1, Len(b))

\* the plain text of the run before the step and of the text nodes
OldText == [i \in 1..Len(ys[Elem + 1].chars) |-> ys[Elem + 1].chars[i].c]

NewText == JoinText(FirstTexts[1].a)

\* the run kept its place and exactly the characters between the common
\* prefix and the common suffix were deleted and inserted
UpdatedInPlace ==
  /\ ys'[Elem].kids[1] = Elem + 1
  /\ ys'[Elem + 1].kind = "text" /\ ~ys'[Elem + 1].del
  /\ \A i \in 1..Len(log') : log'[i].id = Elem + 1 => log'[i].op \in {"textDelete", "textInsert", "textFormat"}
  /\ Cardinality(Events("diff")') = 1
  /\ \A i \in Events("diff")' :
       /\ ev'[i].a = CommonPrefix(OldText, NewText)
       /\ ev'[i].b = Len(OldText) - CommonPrefix(OldText, NewText) - CommonSuffix(OldText, NewText)
       /\ ev'[i].c = SubSeq(NewText, CommonPrefix(OldText, NewText) + 1,
                            Len(NewText) - CommonSuffix(OldText, NewText))
  /\ OldText' = NewText

\* C26: when the left child of the dirty middle is a text run and the slot
\* of the node a list of text nodes not equal to it, the run stays where it
\* is and is not made anew, only the characters between the longest common
\* prefix and the longest common suffix of the old and the new text are
\* deleted and inserted, and after the formats are applied the run is equal
\* (equalYTextPText) to the text nodes
C26_TextRunUpdatedInPlace ==
  [][(TextDirty /\ Did("reconcile")' /\ lastErr' = "none") =>
       /\ UpdatedInPlace
       /\ equalYTextPText(ys', Elem + 1, FirstTexts[1].a)]_vars

\* the same, with the equality the specification describes in place of
\* equalYTextPText: the segments of the run are the text nodes, with an
\* attribute for every mark
C26_UpdatedInPlaceAndAligned ==
  [][(TextDirty /\ Did("reconcile")' /\ lastErr' = "none") =>
       /\ UpdatedInPlace
       /\ AlignedText(Elem + 1, FirstTexts[1].a)']_vars

\* the run 'a' was updated to 'ab': one character was inserted after the
\* common prefix, and the formats were applied
C26_Witness ==
  /\ Did("reconcile") /\ lastErr = "none"
  /\ input.n0.content = << Piece("strong") >>
  /\ input.n.content = << Piece("plain"), Piece("both") >>
  /\ \E i \in Events("diff") : ev[i].a = 1 /\ ev[i].b = 0 /\ ev[i].c = << "b" >>
  /\ ys[Elem].kids[1] = Elem + 1
  /\ toDelta(ys, Elem + 1) =
       << [insert |-> <<"a">>, attributes |-> {}],
          [insert |-> <<"b">>, attributes |-> {Fmt("strong", 0, 0), Fmt("em", 0, 0)}] >>

\* the run was updated to the text node with two comments and is not equal
\* to it for equalYTextPText
C26_UnequalAfterUpdate ==
  /\ Did("reconcile") /\ lastErr = "none"
  /\ input.n0.content = << Piece("plain") >>
  /\ input.n.content = << Piece("comments") >>
  /\ Events("diff") # {}
  /\ AlignedText(Elem + 1, FirstTexts[1].a)
  /\ ~equalYTextPText(ys, Elem + 1, FirstTexts[1].a)

(***************************************************************************)
(* Building a paragraph whose children are text runs next to each other:   *)
(* each child is a run of this replica, a run of another replica, a run    *)
(* that was deleted before, or an image.  The i-th child holds the i-th    *)
(* letter.                                                                 *)
(***************************************************************************)
RunKinds == {"local", "remote", "gone", "img"}

Letters == << "a", "b", "c" >>

\* the i-th child of the paragraph
RunOf(kind, i) ==
  [(IF kind = "img"
    THEN YNode("el", "img", EmptyFn, <<>>, <<>>, TRUE)
    ELSE YNode("text", "", EmptyFn, <<>>, IF kind = "gone" THEN <<>> ELSE << Char(Letters[i], {}) >>,
               kind # "remote"))
     EXCEPT !.parent = Elem, !.born = 1, !.del = (kind = "gone")]

MergeInputs == UNION { [1..k -> RunKinds] : k \in 1..Len(Letters) }

InitMerge ==
  /\ input \in MergeInputs
  /\ ys = << [EmptyFragment EXCEPT !.kids = << Elem >>],
             [YNode("el", "p", EmptyFn, [i \in 1..Len(input) |-> Elem + i], <<>>, TRUE)
                EXCEPT !.parent = Root, !.born = 1] >>
          \o [i \in 1..Len(input) |-> RunOf(input[i], i)]
  /\ mapping = EmptyFn
  /\ prosemirrorView = FALSE
  /\ listeners = NoListeners
  /\ beforeTransactionSelection = 0
  /\ signals = <<>>
  /\ differed = FALSE
  /\ doc = DefaultDoc
  /\ pluginState = InitPluginState
  /\ psid = 0
  /\ initialContentChanged = FALSE
  /\ tasks = <<>>
  /\ pn = 30
  /\ ev = <<>>
  /\ log = <<>>
  /\ lastErr = "none"
  /\ steps = 0

\* createNodeFromYElement(Elem, schema, binding): the document holds the node
BuildMerged ==
  /\ steps = 0
  /\ LET Back(r) == Commit(Note([r.w EXCEPT !.doc = PElem(0, "doc", EmptyFn, {}, r.n)], "merged", "", 0, 0))
     IN Back(createNodeFromYElement(World, Elem, "map"))

NextMerge == BuildMerged

SpecMerge == InitMerge /\ [][NextMerge]_vars

(***************************************************************************)
(* C27: the text run that follows a text run.                              *)
(***************************************************************************)
\* the children of the paragraph, tombstones included
Runs == ys[Elem].kids

IsLiveRun(id) == ys[id].kind = "text" /\ ~ys[id].del

\* the i-th child is a text run that is built, and the child right of it is
\* a live text run that this replica created
Mergeable(i) ==
  /\ i + 1 \in 1..Len(Runs)
  /\ IsLiveRun(Runs[i])
  /\ IsLiveRun(Runs[i + 1]) /\ ys[Runs[i + 1]].client

\* C27: before the text nodes of a text run are built, a text run that comes
\* right after it, is live and was created by this replica is appended to it
\* and deleted; a run right after it that another replica created or that is
\* deleted already stays as it is
C27_FollowerIsMerged ==
  [][BuildMerged =>
       \A i \in 1..(Len(Runs) - 1) :
         IsLiveRun(Runs[i]) /\ ys[Runs[i + 1]].kind = "text" =>
           IF Mergeable(i)
           THEN /\ ys'[Runs[i + 1]].del
                /\ ys'[Runs[i]].chars = ys[Runs[i]].chars \o ys[Runs[i + 1]].chars
           ELSE /\ ys'[Runs[i + 1]].del = ys[Runs[i + 1]].del
                /\ SubSeq(ys'[Runs[i + 1]].chars, 1, Len(ys[Runs[i + 1]].chars)) = ys[Runs[i + 1]].chars]_vars

\* the same for a run that no run before it has taken up: the first of a
\* row of runs of this replica
C27_FollowerOfFirstIsMerged ==
  [][BuildMerged =>
       \A i \in 1..(Len(Runs) - 1) :
         (/\ IsLiveRun(Runs[i]) /\ ys[Runs[i + 1]].kind = "text"
          /\ ~(i > 1 /\ Mergeable(i - 1))) =>
           IF Mergeable(i)
           THEN /\ ys'[Runs[i + 1]].del
                /\ ys'[Runs[i]].chars = ys[Runs[i]].chars \o ys[Runs[i + 1]].chars
           ELSE /\ ys'[Runs[i + 1]].del = ys[Runs[i + 1]].del
                /\ SubSeq(ys'[Runs[i + 1]].chars, 1, Len(ys[Runs[i + 1]].chars)) = ys[Runs[i + 1]].chars]_vars

\* a run of another replica was followed by a run of this one: the second
\* was appended to the first and deleted
C27_Witness ==
  /\ Did("merged") /\ lastErr = "none"
  /\ input = << "remote", "local" >>
  /\ ys[Elem + 1].chars = << Char("a", {}), Char("b", {}) >> /\ ~ys[Elem + 1].del
  /\ ys[Elem + 2].del

\* of three runs of this replica the second took up the third after it had
\* been deleted itself
C27_LostToDeletedLeader ==
  /\ Did("merged") /\ lastErr = "none"
  /\ input = << "local", "local", "local" >>
  /\ ys[Elem + 1].chars = << Char("a", {}), Char("b", {}) >>
  /\ ys[Elem + 2].del /\ ys[Elem + 2].chars = <<>>
  /\ ys[Elem + 3].del

(***************************************************************************)
(* C28: the text of the merged runs.                                       *)
(***************************************************************************)
\* the text of the live text runs of the paragraph, in order
LiveText ==
  Concat([i \in 1..Len(KidsOfKind(Elem, "text")) |->
            [j \in 1..Len(ys[KidsOfKind(Elem, "text")[i]].chars) |-> ys[KidsOfKind(Elem, "text")[i]].chars[j].c]])

\* the text of the paragraph that was built
BuiltText == JoinText(doc.content[1].content)

\* the children of the paragraph are live text runs, two or more
AdjacentLiveRuns == Len(input) >= 2 /\ \A i \in 1..Len(input) : input[i] \in {"local", "remote"}

\* C28: building a paragraph of two, three or more live text runs next to
\* each other keeps the text: the live text of the children is the same
\* after the build as before, and the paragraph built holds that text once
C28_MergeKeepsText ==
  [][(BuildMerged /\ AdjacentLiveRuns) =>
       /\ lastErr' = "none" /\ doc'.content # <<>>
       /\ LiveText' = LiveText
       /\ BuiltText' = LiveText]_vars

\* the same when no run of this replica follows a run of this replica that
\* itself follows a run
C28_KeepsTextOfPairs ==
  [][(BuildMerged /\ AdjacentLiveRuns /\ \A i \in 2..(Len(input) - 1) : ~(Mergeable(i - 1) /\ Mergeable(i))) =>
       /\ lastErr' = "none" /\ doc'.content # <<>>
       /\ LiveText' = LiveText
       /\ BuiltText' = LiveText]_vars

\* three runs 'a', 'b', 'c' of this replica were built into the paragraph
\* 'ab'
C28_Witness ==
  /\ Did("merged") /\ lastErr = "none"
  /\ input = << "local", "local", "local" >>
  /\ LiveText = << "a", "b" >>
  /\ JoinText(doc.content[1].content) = << "a", "b" >>

(***************************************************************************)
(* C29: the shared tree under the render of a snapshot.                    *)
(***************************************************************************)
\* the handler that ran was the queued render of a snapshot, without restore
RenderRan == Did("rendered") /\ Events("rendering") # {}

\* the render caught an error of the construction of a node
RenderHealed == Events("healed") # {}

\* C29: the render of a snapshot that is given as a snapshot of the live
\* document changes nothing in the shared tree, whether the nodes can be
\* constructed or not: no type is deleted, no text run is changed
C29_RenderLeavesTreeUnchanged == RenderRan => log = <<>>

\* the same for a render in which every node could be constructed
C29_UnchangedWhenAllBuilt == (RenderRan /\ ~RenderHealed) => log = <<>>

\* a render in which every node was constructed
C29_Witness == RenderRan /\ ~RenderHealed /\ ev[Len(ev)].b > 0

\* a render that was called without a snapshot, and so took the snapshot of
\* the document when it ran, deleted an element of the live document that
\* the schema cannot hold
C29_RenderDeleted ==
  /\ RenderRan /\ RenderHealed
  /\ pluginState.snapshot = NoSnap /\ pluginState.prevSnapshot # NoSnap
  /\ \E i \in 1..Len(log) : log[i].op = "delete" /\ log[i].org = ySyncPluginKey /\ ys[log[i].id].del

(***************************************************************************)
(* C30: the queued callback of a restore.                                  *)
(***************************************************************************)
\* the handler that ran was the queued callback of a restore: it rendered
\* the snapshot and then ran _prosemirrorChanged
RestoreRan ==
  /\ lastErr = "none"
  /\ \E i \in Events("rendered") : \E j \in Events("forward") : i < j

\* C30: when the queued callback of a restore has run, the plugin state of
\* the view holds no snapshot, no previous snapshot and no restore, the
\* surface is editable, the content of the surface was synchronized into the
\* shared tree after the render, and the callback has queued no render of a
\* snapshot
C30_RestoreLeavesSnapshot ==
  [][(RunTask /\ RestoreRan') =>
       /\ pluginState'.snapshot = NoSnap /\ pluginState'.prevSnapshot = NoSnap /\ ~pluginState'.restore
       /\ editable(pluginState')
       /\ \E j \in Events("forward")' : \A i \in Events("rendered")' : i < j
       /\ Len(tasks') < Len(tasks)]_vars

\* what the callback does: the content of the surface is synchronized after
\* the render, and the plugin state of the view keeps the snapshot, the
\* previous snapshot and the restore it had
C30_RestoreKeepsSnapshot ==
  [][(RunTask /\ RestoreRan') =>
       /\ pluginState'.snapshot = pluginState.snapshot
       /\ pluginState'.prevSnapshot = pluginState.prevSnapshot
       /\ pluginState'.restore /\ pluginState.restore
       /\ \E j \in Events("forward")' : \A i \in Events("rendered")' : i < j]_vars

\* the callback of a restore has run and the plugin state of the view still
\* holds the snapshot and the restore
C30_Witness ==
  /\ RestoreRan
  /\ pluginState.snapshot = Snap /\ pluginState.prevSnapshot = Snap /\ pluginState.restore
  /\ ~editable(pluginState)

\* the callback of a restore has queued another render of the snapshot
C30_RenderQueuedAgain ==
  /\ RestoreRan
  /\ tasks # <<>> /\ tasks[Len(tasks)].psid = psid

(***************************************************************************)
(* C31: the selection stored before the transactions of the document.      *)
(***************************************************************************)
\* the calls of the listener of beforeAllTransactions that stored a
\* selection
Captures == { i \in 1..Len(signals) : signals[i].sig = "before" /\ signals[i].now # signals[i].was }

\* the calls of the listener of afterAllTransactions
Clears == { i \in 1..Len(signals) : signals[i].sig = "after" }

\* C31: the listener of beforeAllTransactions stores a selection at most
\* once between two calls of the listener of afterAllTransactions and never
\* replaces one that is stored; the listener of afterAllTransactions sets it
\* to null; and it is null whenever no transaction of the document runs
C31_SelectionIsCapturedOnce ==
  /\ \A i \in 1..Len(signals) : signals[i].sig = "before" /\ signals[i].was # 0 => signals[i].now = signals[i].was
  /\ \A i \in Captures, j \in Captures : i < j => \E k \in Clears : i < k /\ k < j
  /\ \A i \in Clears : signals[i].now = 0
  /\ beforeTransactionSelection = 0

\* a local edit: the selection was stored when the transaction began,
\* replaced by _prosemirrorChanged and set to null when the transactions
\* were over
C31_Witness ==
  /\ prosemirrorView /\ beforeTransactionSelection = 0
  /\ \E i \in Captures, k \in Clears :
       /\ i < k /\ signals[k].was # 0
       /\ \E j \in (i + 1)..(k - 1) : signals[j].sig = "changed" /\ signals[j].was = signals[i].now

(***************************************************************************)
(* C32: when a snapshot is rendered.                                       *)
(***************************************************************************)
\* the transactions the last handler dispatched that change the snapshot of
\* the plugin state
SnapshotDispatches == { i \in Events("dispatch") : ev[i].by = "snapshot" }

\* the last handler rendered a snapshot
Rendering == Events("rendering") # {}

MaxLatch == 6

\* the paragraph without text of another peer
EmptiedParagraph == [op |-> "insert", kind |-> "emptied"]

\* the state the world `r` is left in, before any handler of the
\* specification has run
Left(r) ==
  /\ ys = Tuple([i \in 1..Len(r.ys) |-> [r.ys[i] EXCEPT !.born = IF @ > 0 THEN 1 ELSE 0]])
  /\ mapping = r.map
  /\ prosemirrorView = r.view
  /\ listeners = r.obs
  /\ beforeTransactionSelection = r.bts
  /\ signals = <<>>
  /\ differed = FALSE
  /\ doc = r.doc
  /\ pluginState = r.ps
  /\ psid = r.psid
  /\ initialContentChanged = r.icc
  /\ tasks = r.tasks
  /\ pn = r.pn
  /\ ev = <<>>
  /\ log = <<>>
  /\ lastErr = r.err
  /\ steps = 0
  /\ input = <<>>

InitLatch ==
  Left(renderSnapshot(forceRerender(initView(ApplyRemote(BlankWorld, EmptiedParagraph))), NoSnap, Snap))

\* another peer inserts an empty paragraph or deletes the first one
LatchRemote ==
  /\ steps < MaxLatch
  /\ \E o \in {EmptiedParagraph, [op |-> "delete", kind |-> ""]} :
       /\ RemoteEnabled(World, o)
       /\ Commit(ApplyRemote(World, o))

\* the event loop runs the oldest queued callback
LatchTask ==
  /\ steps < MaxLatch
  /\ tasks # <<>>
  /\ Commit(runTask([World EXCEPT !.tasks = Tail(@)], Head(tasks)))

\* binding.unrenderSnapshot() called by the application
LatchUnrender ==
  /\ steps < MaxLatch
  /\ Commit(unrenderSnapshot(World))

\* a transaction of the user that leaves the document as it is (a move of
\* the selection): view.dispatch(tr)
LatchSelect ==
  /\ steps < MaxLatch
  /\ Commit(dispatch(World, [doc |-> doc, meta |-> NoMeta, hist |-> TRUE, by |-> "user"]))

\* the user types into the document or makes it the default document again
LatchEdit ==
  /\ steps < MaxLatch
  /\ editable(pluginState)
  /\ \E c \in {DefaultContent, << LocalNode("plain", pn + 1) >>} :
       /\ Differs(c, doc.content)
       /\ Commit(dispatch([World EXCEPT !.pn = @ + 6],
                          [doc |-> PElem(pn, "doc", EmptyFn, {}, c), meta |-> NoMeta, hist |-> TRUE, by |-> "user"]))

NextLatch ==
  \/ LatchRemote
  \/ LatchTask
  \/ LatchUnrender
  \/ LatchSelect
  \/ LatchEdit

SpecLatch == InitLatch /\ [][NextLatch]_vars

\* the i-th event is an update of the plugin view that found the latch set
\* or set it: no snapshot was active and the document differed
LatchedAt(i) == ev[i].c.icc \/ (~ev[i].c.snapshot /\ ev[i].c.differs)

\* the updates of the plugin view of the last handler that found no
\* snapshot and the token of the mutex free
FreeUpdates == { i \in Events("update") : ~ev[i].c.snapshot /\ ~ev[i].c.taken }

\* an update that finds the latch not set and does not set it changes
\* nothing in the shared tree
UnlatchedUpdatesSpare == \A i \in Events("update") : ~LatchedAt(i) => ev[i].a = 0 /\ ev[i].b = 0

\* C33 (the part that holds): an update of the plugin view that finds the
\* latch not set, and a snapshot active or the default document, changes
\* nothing in the shared tree; the latch is set by the first update that
\* finds no snapshot and a document that differs from the default one, and
\* is never reset; every update that finds the latch set or sets it, no
\* snapshot and the mutex free, runs the forward synchronization
C33_LatchedUpdatesSync ==
  [][/\ initialContentChanged => initialContentChanged'
     /\ initialContentChanged' =
          (initialContentChanged \/ \E i \in Events("update")' : ~ev'[i].c.snapshot /\ ev'[i].c.differs)
     /\ UnlatchedUpdatesSpare'
     /\ \A i \in FreeUpdates' : LatchedAt(i)' => ev'[i].a = 1]_vars

\* the document of the view differs from the default one
DiffersNow == prosemirrorView /\ Differs(doc.content, DefaultContent)

\* C33: as long as the document has not differed from the default one the
\* updates of the plugin view change nothing in the shared tree; once a
\* handler has left a document that differs, every update of a later handler
\* that finds no snapshot and the mutex free runs the forward synchronization
C33_SyncOnceDiffered ==
  [][/\ UnlatchedUpdatesSpare'
     /\ differed => \A i \in FreeUpdates' : ev'[i].a = 1]_vars

\* the latch was set and the document is the default one again: the update
\* ran the forward synchronization
C33_Witness ==
  /\ initialContentChanged /\ ~DiffersNow /\ prosemirrorView
  /\ \E i \in FreeUpdates : ev[i].c.icc /\ ~ev[i].c.differs /\ ev[i].a = 1 /\ ev[i].b > 0

\* the document differed while a snapshot was rendered and is the default
\* one again: the latch is not set, and an update that finds no snapshot and
\* the mutex free does not synchronize
C33_DifferedUnderSnapshot ==
  /\ differed /\ ~initialContentChanged /\ ~DiffersNow /\ prosemirrorView
  /\ \E i \in FreeUpdates : ev[i].a = 0
  /\ \E i \in 1..Len(ys) : ys[i].del

(***************************************************************************)
(* C34: shared types that are neither elements nor text runs.  The         *)
(* fragment holds a paragraph and, after it, nothing, a hook, a text run   *)
(* or another paragraph; the first paragraph holds up to two children,     *)
(* text runs, hooks and images.                                            *)
(***************************************************************************)
TopKinds == {"none", "hook", "text", "p"}

NestedKinds == {"text", "hook", "img"}

HookInputs == { [top |-> t, kids |-> k] : t \in TopKinds, k \in UNION { [1..n -> NestedKinds] : n \in 0..2 } }

\* a type of another peer of the kind `kind` under `parent`
HookNode(kind, parent) ==
  [(CASE kind = "hook" -> YNode("hook", "", EmptyFn, <<>>, <<>>, FALSE)
      [] kind = "text" -> YNode("text", "", EmptyFn, <<>>, << Char("a", {}) >>, FALSE)
      [] kind = "img" -> YNode("el", "img", EmptyFn, <<>>, <<>>, FALSE)
      [] kind = "p" -> YNode("el", "p", EmptyFn, <<>>, <<>>, FALSE))
     EXCEPT !.parent = parent, !.born = 1]

InitHook ==
  /\ input \in HookInputs
  /\ LET tops == IF input.top = "none" THEN << >> ELSE << HookNode(input.top, Root) >>
         base == Elem + Len(tops)
     IN ys = << [EmptyFragment EXCEPT !.kids = [i \in 1..(1 + Len(tops)) |-> Elem + i - 1]],
                [HookNode("p", Root) EXCEPT !.kids = [i \in 1..Len(input.kids) |-> base + i]] >>
              \o tops
              \o [i \in 1..Len(input.kids) |-> HookNode(input.kids[i], Elem)]
  /\ mapping = EmptyFn
  /\ prosemirrorView = FALSE
  /\ listeners = NoListeners
  /\ beforeTransactionSelection = 0
  /\ signals = <<>>
  /\ differed = FALSE
  /\ doc = DefaultDoc
  /\ pluginState = InitPluginState
  /\ psid = 0
  /\ initialContentChanged = FALSE
  /\ tasks = <<>>
  /\ pn = 30
  /\ ev = <<>>
  /\ log = <<>>
  /\ lastErr = "none"
  /\ steps = 0

\* the nodes built are the content of the document, unless an exception was
\* thrown
Shown(built, e) ==
  Commit(Note(IF Failed(built.w) THEN built.w
              ELSE [built.w EXCEPT !.doc = PElem(0, "doc", EmptyFn, {}, built.children)],
              e, "", 0, 0))

\* _typeChanged: this.type.toArray().map(t => createNodeIfNotExists(t, schema, this))
HookReverse ==
  /\ steps = 0
  /\ Shown(createNodes([w |-> World, children |-> <<>>], toArray(ys, Root), 1, "map", TRUE), "reverse")

\* _forceRerender: this.type.toArray().map(t => createNodeFromYElement(t, schema, this))
HookRerender ==
  /\ steps = 0
  /\ Shown(createNodes([w |-> World, children |-> <<>>], toArray(ys, Root), 1, "map", FALSE), "rerender")

NextHook == HookReverse \/ HookRerender

SpecHook == InitHook /\ [][NextHook]_vars

\* the first paragraph holds a hook
NestedHook == \E i \in 1..Len(input.kids) : input.kids[i] = "hook"

\* C34: a reverse synchronization of a fragment that holds a type that is
\* neither an element nor a text run, at the top level or in an element,
\* throws methodUnimplemented: it does not go on as if the type were a text
\* run or an element
C34_HookIsNotImplemented ==
  [][(HookReverse /\ (NestedHook \/ input.top = "hook")) => lastErr' = "methodUnimplemented"]_vars

\* the same for a hook at the top level of the fragment that the
\* synchronization reaches; a hook in an element is asked for its delta as a
\* text run is, which throws a TypeError
C34_TopLevelHookIsNotImplemented ==
  [][HookReverse =>
       /\ (input.top = "hook" /\ ~NestedHook) => lastErr' = "methodUnimplemented"
       /\ NestedHook => lastErr' = "TypeError"
       /\ (NestedHook \/ input.top = "hook") => doc' = doc /\ ys' = ys]_vars

\* a hook at the top level, after a paragraph that was built: the reverse
\* synchronization threw methodUnimplemented
C34_Witness ==
  /\ Did("reverse") /\ input.top = "hook" /\ input.kids = << "text" >>
  /\ lastErr = "methodUnimplemented" /\ doc = DefaultDoc

\* a hook in a paragraph, after a text run: the reverse synchronization
\* threw a TypeError
C34_NestedHookAsText ==
  /\ Did("reverse") /\ input.kids = << "text", "hook" >> /\ input.top = "none"
  /\ lastErr = "TypeError" /\ doc = DefaultDoc

(***************************************************************************)
(* C35: the origin of the changes the binding makes while it builds nodes. *)
(***************************************************************************)
\* the changes of the shared tree the last handler made in a transaction
\* that does not carry ySyncPluginKey
Untagged == { i \in 1..Len(log) : log[i].org # ySyncPluginKey }

\* C35: every change of the shared tree that is made while nodes are built
\* from it (the deletion of a type that could not be built, the append of a
\* text run to the run before it and the deletion of that run) is made in a
\* transaction with the origin ySyncPluginKey
C35_BuildChangesAreTagged == Did("merged") => Untagged = {}

\* the part that holds when the fragment is built by an observer, a
\* re-render or a render of a snapshot: a type that could not be built is
\* deleted in a transaction with the origin ySyncPluginKey
C35_HealingIsTagged ==
  \A e \in Events("healed") :
    \E i \in 1..Len(log) : log[i].op = "delete" /\ log[i].id = ev[e].a /\ log[i].org = ySyncPluginKey

\* a text run was appended to the run before it and deleted, both in
\* transactions without origin
C35_Witness ==
  /\ Did("merged") /\ input = << "local", "local" >>
  /\ \E i \in Untagged : log[i].op = "textInsert" /\ log[i].id = Elem + 1 /\ log[i].org = NoOrigin
  /\ \E i \in Untagged : log[i].op = "delete" /\ log[i].id = Elem + 2 /\ log[i].org = NoOrigin
  /\ ys[Elem + 2].del

====
